---- MODULE Spec2Model ----
(***************************************************************************)
(* The command dispatch and reply pipeline of the bot, fed by the test     *)
(* backend's serve_forever loop, and the chat-room relay plugin.           *)
(*                                                                         *)
(* Texts are sequences of one-character strings; a command line is a       *)
(* sequence of tokens whose head is the command name and whose tail are    *)
(* one-character arguments.                                                *)
(***************************************************************************)
EXTENDS Integers, Sequences, FiniteSets, TLC

VARIABLES
    incoming_stanza_queue,   \* test.py:29, FIFO of <<stanza_type, entry>>
    outgoing_message_queue,  \* test.py:30 / tests:13, FIFO of sent messages
    pushed,                  \* number of stanzas the test thread has pushed
    pc,                      \* position of the serving thread in the pipeline
    mess,                    \* the inbound message being dispatched
    cmd,                     \* the resolved command name
    args,                    \* raw, then parsed, argument tokens
    replies,                 \* what the running handler will still produce
    parts,                   \* chunks of the current item not yet sent
    err,                     \* the failure being reported by ErrorEmitting
    script,                  \* history: the handler's behaviour in this dispatch
    sent,                    \* history: messages sent by this dispatch
    cur,                     \* history: number of callback_message invocations
    done,                    \* history: number of dispatches that returned
    relay_cfg,               \* CHATROOM_RELAY and REVERSE_CHATROOM_RELAY
    relay_mess,              \* history: the message of the relay's last callback
    relay_sends,             \* history: the calls of send that callback made
    relay_out,               \* history: how that callback ended
    connect_cfg,             \* the ChatRoom plugin loaded and its configuration
    connected,               \* chatRoom.py: ChatRoom.connected
    connect_calls,           \* history: number of calls of callback_connect
    join_log,                \* history: the joins the last connecting call attempted
    connect_out,             \* history: how the last call of callback_connect ended
    timer,                   \* builtins/chatRoom.py:24 self.t, the keep-alive Timer
    beats,                   \* history: number of heartbeats sent (saturating)
    heartbeat,               \* history: the last heartbeat signal sent
    joined_rooms,            \* test.py:31, {room jid: MUCRoom instance}
    bot_thread,              \* test.py:187 TestBot.bot_thread
    stop_pc,                 \* position of the test thread inside TestBot.stop
    life_out,                \* history: how the last call of start or stop ended
    stops,                   \* history: number of calls of stop that returned
    left_at_stop,            \* history: rooms still joined when stop last left them
    tpc,                     \* position of each thread inside join_room
    handles,                 \* history: number of MUCRoom handles created
    duplicate_join,          \* history: a stored handle was replaced by a join
    registry,                \* the command registry: name -> descriptor
    reg_log,                 \* history: the register and unregister calls made
    resolve_in,              \* history: the tokens of the last call of resolve
    resolve_out,             \* history: what that call returned
    backend_out,             \* history: how the backend call of a room command went
    exit_log,                \* history: the calls serve_forever made on its way out
    exit_cause,              \* history: what ended the loop of serve_forever
    pending,                 \* number of keep-alive Timers started and not yet fired
    zapped,                  \* history: entries the last stop found in the two queues
    ident,                   \* history: the last call on identifiers and its result
    room_op                  \* history: the last call of join_room or leave_room

dvars == <<pc, mess, cmd, args, replies, parts, err, script, sent, cur, done>>
qvars == <<incoming_stanza_queue, outgoing_message_queue, pushed>>
rvars == <<relay_cfg, relay_mess, relay_sends, relay_out>>
cvars == <<connect_cfg, connected, connect_calls, join_log, connect_out, timer,
           beats, heartbeat>>
jvars == <<joined_rooms, bot_thread, stop_pc, life_out, stops, left_at_stop, tpc,
           handles, duplicate_join>>
gvars == <<registry, reg_log, resolve_in, resolve_out>>
xvars == <<backend_out, exit_log, exit_cause, pending, zapped, ident, room_op>>
ovars == <<cvars, jvars, gvars, xvars>>
vars == <<incoming_stanza_queue, outgoing_message_queue, pushed, pc, mess, cmd,
          args, replies, parts, err, script, sent, cur, done,
          relay_cfg, relay_mess, relay_sends, relay_out, ovars>>

----------------------------------------------------------------------------
(* Bounds *)

MaxInbound == 2       \* stanzas pushed in one run
MaxYield == 2         \* items an arbitrary generator handler yields
MaxTargets == 2       \* targets configured for one relay key
MaxPresence == 2      \* rooms of the configured presence list
MaxConnects == 2      \* calls of callback_connect in one run
MaxBeats == 2         \* heartbeats counted
MaxRuns == 2          \* runs of the test bot, from start to stop
MaxHandles == 3       \* room handles created in one run of the model
MaxThreads == 2       \* threads calling join_room and leave_room
MaxOps == 2           \* register and unregister calls in one run
MaxAddr == 7          \* characters of an address string

\* The configured maximum message size (tests:197 sets it to
\* len(LONG_TEXT_STRING)); scaled down here.
MESSAGE_SIZE_LIMIT == 3

----------------------------------------------------------------------------
(* Texts *)

Range(s) == {s[i] : i \in 1..Len(s)}

RECURSIVE Concat(_)
Concat(ss) == IF ss = <<>> THEN <<>> ELSE Head(ss) \o Concat(Tail(ss))

\* tests:10, a line whose length is the size limit and which ends in "\n"
LONG_TEXT_STRING ==
    [i \in 1..MESSAGE_SIZE_LIMIT |-> IF i = MESSAGE_SIZE_LIMIT THEN "\n" ELSE "t"]

Times(t, n) == Concat([i \in 1..n |-> t])


\* A text the pipeline must split: one character longer than the limit,
\* with blanks inside.
ODD_TEXT ==
    [i \in 1..(MESSAGE_SIZE_LIMIT + 1) |-> IF i % 2 = 0 THEN " " ELSE "o"]

\* The fixed human-readable marker of the synthetic error message
\* (tests:166 looks for it in the body).
MSG_ERROR_OCCURRED == "MSG_ERROR_OCCURRED"

----------------------------------------------------------------------------
(* Response chunking (step 5 of the pipeline) *)

\* A body at most n long is one chunk; a longer one is cut into the smallest
\* number of contiguous chunks of at most n characters, in order.
RECURSIVE split_string_after(_, _)
split_string_after(str, n) ==
    IF Len(str) <= n THEN <<str>>
    ELSE <<SubSeq(str, 1, n)>> \o split_string_after(SubSeq(str, n + 1, Len(str)), n)

----------------------------------------------------------------------------
(* Handlers.  What a handler does when called with (mess, args) is a record *)
(*   gen    - it is a generator function (its values are pulled one by one) *)
(*   out    - the texts it returns or yields, in production order           *)
(*   raises - it raises after producing them                                *)

Behaviour(g, o, r) == [gen |-> g, out |-> o, raises |-> r]

\* A faulty variant that joins the arguments with a blank between them.
return_args_as_str_blank(a) ==
    Behaviour(FALSE,
              <<[i \in 1..(IF Len(a) = 0 THEN 0 ELSE 2 * Len(a) - 1) |->
                    IF i % 2 = 1 THEN a[(i + 1) \div 2] ELSE " "]>>,
              FALSE)

\* tests:25-27   return "".join(args)
return_args_as_str(a) == Behaviour(FALSE, <<a>>, FALSE)

\* tests:33-35   raise Exception("Kaboom!")
raises_exception(a) == Behaviour(FALSE, <<>>, TRUE)

\* tests:37-40   for arg in args: yield arg
yield_args_as_str(a) == Behaviour(TRUE, [i \in 1..Len(a) |-> <<a[i]>>], FALSE)

\* tests:47-50   yield "foobar"; raise Exception("Kaboom!")
yields_str_then_raises_exception(a) == Behaviour(TRUE, <<<<"f", "b">>>>, TRUE)

\* tests:52-54   return LONG_TEXT_STRING * 3
return_long_output(a) == Behaviour(FALSE, <<Times(LONG_TEXT_STRING, 3)>>, FALSE)

\* tests:56-59   for i in range(2): yield LONG_TEXT_STRING * 3
yield_long_output(a) ==
    Behaviour(TRUE, [i \in 1..2 |-> Times(LONG_TEXT_STRING, 3)], FALSE)

\* The texts an arbitrary plugin handler produces.
TextPool == {<<"f">>, <<"b">>, ODD_TEXT}

SeqsUpTo(S, n) == UNION {[1..k -> S] : k \in 0..n}

\* An arbitrary plugin command: a plain function that returns one text,
\* returns nothing or raises, or a generator that yields up to MaxYield
\* texts and then ends or raises.
PluginBehaviours ==
    {Behaviour(FALSE, <<t>>, FALSE) : t \in TextPool}
        \cup {Behaviour(FALSE, <<>>, r) : r \in BOOLEAN}
        \cup {Behaviour(TRUE, o, r) : o \in SeqsUpTo(TextPool, MaxYield), r \in BOOLEAN}

\* tests:61-70, the registry of DummyBackend (its two templated commands are
\* left out), and one arbitrary plugin command that parses its arguments
\* shell-like.
commands ==
    [c \in {"return_args_as_str", "raises_exception", "yield_args_as_str",
            "yields_str_then_raises_exception", "return_long_output",
            "yield_long_output"} |-> [arg_parser |-> "None"]]
        @@ [c \in {"plugin_cmd"} |-> [arg_parser |-> "Shlex"]]

\* The behaviours the handler of command c may show on arguments a.
Behaviours(c, a) ==
    CASE c = "return_args_as_str" -> {return_args_as_str(a)}
      [] c = "raises_exception" -> {raises_exception(a)}
      [] c = "yield_args_as_str" -> {yield_args_as_str(a)}
      [] c = "yields_str_then_raises_exception" -> {yields_str_then_raises_exception(a)}
      [] c = "return_long_output" -> {return_long_output(a)}
      [] c = "yield_long_output" -> {yield_long_output(a)}
      [] OTHER -> PluginBehaviours


----------------------------------------------------------------------------
(* Argument parsers *)

\* Shell-like tokenizing of raw text: blanks separate tokens, a double quote
\* opens or closes a quoted stretch in which blanks are kept.
RECURSIVE ShlexScan(_, _, _, _)
ShlexScan(raw, inq, tok, acc) ==
    IF raw = <<>>
    THEN [ok |-> ~inq, args |-> IF tok = <<>> THEN acc ELSE Append(acc, tok)]
    ELSE LET ch == Head(raw) IN
         IF ch = "\""
         THEN ShlexScan(Tail(raw), ~inq, tok, acc)
         ELSE IF ch = " " /\ ~inq
         THEN ShlexScan(Tail(raw), inq, <<>>, IF tok = <<>> THEN acc ELSE Append(acc, tok))
         ELSE ShlexScan(Tail(raw), inq, Append(tok, ch), acc)

\* The parser of a descriptor applied to the raw argument text: ok is FALSE
\* on ArgumentSyntaxError (unbalanced quotes).  A command without a parser
\* gets the raw text itself.
ParseArgs(parser, raw) ==
    IF parser = "Shlex" THEN ShlexScan(raw, FALSE, <<>>, <<>>)
    ELSE [ok |-> TRUE, args |-> raw]

----------------------------------------------------------------------------
(* Inputs *)

STZ_MSG == 1
QUIT_MESSAGE == [name |-> "$STOP$", rest |-> <<>>]

\* The argument lists _execute_and_send is called with (tests:147 passes
\* ['foo', 'bar']).
ArgLists == {<<>>, <<"f">>, <<"f", "b">>}

\* The command lines the test thread pushes to the serving thread.
ServeLines ==
    {[name |-> "raises_exception", rest |-> <<>>],
     [name |-> "yield_args_as_str", rest |-> <<"f", "b">>],
     [name |-> "return_long_output", rest |-> <<>>],
     [name |-> "nosuchcmd", rest |-> <<"f">>],
     [name |-> "plugin_cmd", rest |-> <<"\"", "f">>]}

\* Python's None.
None == <<>>

\* An identifier: node@domain, or node@domain/resource.
Identifier(n, d, r) == [node |-> n, domain |-> d, resource |-> r]

\* config-template.py:14   BOT_ADMINS = ('gbin@localhost',)
BOT_ADMIN == Identifier("gbin", "localhost", None)

\* tests:14   jid = Identifier('err@localhost/err'), the bot's own identity
self_jid == Identifier("err", "localhost", <<"err">>)

\* An inbound message: the command line it carries, its number in the run,
\* its sender, its addressee and its type.
Inbound(line, idx, frm, to, type) ==
    [line |-> line, idx |-> idx, frm |-> frm, to |-> to, type |-> type]

\* tests:135   build_message("some_message"): a chat message whose from and
\* to are not set.
example_message(line, idx) == Inbound(line, idx, None, None, "chat")

\* test.py:85-87   msg = Message(entry); msg.frm = self.sender; msg.to = self.jid
stanza_message(line, idx) == Inbound(line, idx, BOT_ADMIN, self_jid, "chat")

NoMess == example_message([name |-> "", rest |-> <<>>], 0)
NoBehaviour == Behaviour(FALSE, <<>>, FALSE)

----------------------------------------------------------------------------
(* Sending *)

\* A faulty variant that puts the message at the head of the queue.
send_message_lifo(queue, m) == <<m>> \o queue

\* tests:19-20, test.py:68-70: the message is put at the tail of the
\* outgoing queue.
send_message(queue, m) == Append(queue, m)

\* The reply to the inbound message ms with the given body; irt records the
\* inbound message it answers, type is the type of the inbound message.
\* The address without its resource (tests:95-97).
getStripped(id) == IF id = None THEN None ELSE Identifier(id.node, id.domain, None)

\* A faulty variant that answers to the addressee of the inbound message.
build_reply_to_addressee(ms, text) ==
    [body |-> text, irt |-> ms.idx, to |-> getStripped(ms.to), frm |-> self_jid, type |-> ms.type]

\* tests:119-129: the reply goes to the sender of the inbound message,
\* without the sender's resource, and comes from the bot's own identity.
build_reply(ms, text) ==
    [body |-> text, irt |-> ms.idx, to |-> getStripped(ms.frm), frm |-> self_jid, type |-> ms.type]

IsError(m) == m.body # <<>> /\ m.body[1] = MSG_ERROR_OCCURRED
ErrorsIn(ms) == {i \in 1..Len(ms) : IsError(ms[i])}

----------------------------------------------------------------------------
(* State *)

DispatcherInit ==
    /\ incoming_stanza_queue = <<>>
    /\ outgoing_message_queue = <<>>
    /\ pushed = 0
    /\ pc = "Idle"
    /\ mess = NoMess
    /\ cmd = ""
    /\ args = <<>>
    /\ replies = NoBehaviour
    /\ parts = <<>>
    /\ err = ""
    /\ script = NoBehaviour
    /\ sent = <<>>
    /\ cur = 0
    /\ done = 0

\* config-template.py:18
TEST_ROOM == [node |-> "test", domain |-> "conference.localhost"]

\* config-template.py:27; the template sets no REVERSE_CHATROOM_RELAY.
TemplateConfig ==
    [CHATROOM_RELAY |-> [u \in {[node |-> "gbin", domain |-> "localhost"]} |-> <<TEST_ROOM>>],
     REVERSE_CHATROOM_RELAY |-> <<>>]

NoRelayMess ==
    [type |-> "", frm |-> [node |-> "", domain |-> "", resource |-> None], body |-> <<>>]
NoRelayOut ==
    [called |-> FALSE, stage |-> "none", failed |-> 0, logged |-> FALSE, raised |-> FALSE]

RelayIdle ==
    /\ relay_mess = NoRelayMess
    /\ relay_sends = <<>>
    /\ relay_out = NoRelayOut

\* config-template.py:22 CHATROOM_PRESENCE = (TEST_ROOM,); the plugin of
\* core_plugins, no HipChat.
TemplateConnectConfig ==
    [plugin |-> "core_plugins", CHATROOM_PRESENCE |-> <<TEST_ROOM>>, HIPCHAT_MODE |-> FALSE]

NoTimer == [armed |-> FALSE, due |-> 0, daemon |-> FALSE]
NoConnectOut == [called |-> FALSE, noop |-> FALSE, raised |-> FALSE]

\* chatRoom.py:36 (builtins/chatRoom.py:15) connected = False; no call of
\* callback_connect yet, no keep-alive timer.
ConnectIdle ==
    /\ connected = FALSE
    /\ connect_calls = 0
    /\ join_log = <<>>
    /\ connect_out = NoConnectOut
    /\ timer = NoTimer
    /\ beats = 0
    /\ heartbeat = ""

Threads == 1..MaxThreads
NoLifeOut == [op |-> "", raised |-> FALSE]
ThreadIdle == [pc |-> "idle", room |-> None]

\* test.py:31 joined_rooms = {}
NoRooms == <<>>

\* test.py:29-31, 187: empty queues, no joined room, bot_thread = None.
LifecycleIdle ==
    /\ joined_rooms = NoRooms
    /\ bot_thread = "None"
    /\ stop_pc = "idle"
    /\ life_out = NoLifeOut
    /\ stops = 0
    /\ left_at_stop = 0
    /\ tpc = [t \in Threads |-> ThreadIdle]
    /\ handles = 0
    /\ duplicate_join = FALSE

NotFound == [found |-> FALSE]
NoResolveOut == [called |-> FALSE, at |-> 0, result |-> NotFound]

\* The registry before any plugin is activated; no call of resolve yet.
RegistryIdle ==
    /\ registry = <<>>
    /\ reg_log = <<>>
    /\ resolve_in = <<>>
    /\ resolve_out = NoResolveOut

\* No room command run, the serve loop not left, no Timer started, nothing
\* zapped.
ExtraIdle ==
    /\ backend_out = ""
    /\ exit_log = <<>>
    /\ exit_cause = ""
    /\ pending = 0
    /\ zapped = [incoming |-> 0, outgoing |-> 0]
    /\ ident = [op |-> ""]
    /\ room_op = [op |-> ""]

OtherIdle ==
    /\ connect_cfg = TemplateConnectConfig
    /\ ConnectIdle
    /\ LifecycleIdle
    /\ RegistryIdle
    /\ ExtraIdle

Init ==
    /\ DispatcherInit
    /\ relay_cfg = TemplateConfig
    /\ RelayIdle
    /\ OtherIdle


----------------------------------------------------------------------------
(* The dispatcher: Idle -> Resolving -> Parsing -> Executing ->             *)
(* Emitting(0..N) -> Idle, with ErrorEmitting reachable from Resolving,     *)
(* Parsing and Executing.                                                   *)

\* tests:147, 165, 176, 199: _execute_and_send(cmd, args, mess, ...) called
\* directly with a registered command and an argument list, once the
\* messages of the call before have been popped.
execute_and_send_call ==
    /\ pc = "Idle"
    /\ cur < MaxInbound
    /\ outgoing_message_queue = <<>>
    /\ \E c \in DOMAIN commands, a \in ArgLists :
         \E b \in Behaviours(c, a) :
            /\ mess' = example_message([name |-> c, rest |-> a], cur + 1)
            /\ cmd' = c
            /\ args' = a
            /\ replies' = b
            /\ script' = b
    /\ cur' = cur + 1
    /\ sent' = <<>>
    /\ parts' = <<>>
    /\ err' = ""
    /\ pc' = "Executing"
    /\ UNCHANGED <<done, qvars, rvars, ovars>>

\* Step 1: the first token names the command.
Resolve ==
    /\ pc = "Resolving"
    /\ IF mess.line.name \in DOMAIN commands
       THEN /\ cmd' = mess.line.name
            /\ args' = mess.line.rest
            /\ pc' = "Parsing"
            /\ err' = err
       ELSE /\ err' = "CommandNotFound"
            /\ pc' = "ErrorEmitting"
            /\ UNCHANGED <<cmd, args>>
    /\ UNCHANGED <<mess, replies, parts, script, sent, cur, done, qvars, rvars, ovars>>

\* Step 2: the descriptor's parser; then the handler is called.
Parse ==
    /\ pc = "Parsing"
    /\ LET r == ParseArgs(commands[cmd].arg_parser, args) IN
       IF r.ok
       THEN /\ \E b \in Behaviours(cmd, r.args) :
                  /\ replies' = b
                  /\ script' = b
            /\ args' = r.args
            /\ pc' = "Executing"
            /\ err' = err
       ELSE /\ err' = "ArgumentSyntaxError"
            /\ pc' = "ErrorEmitting"
            /\ UNCHANGED <<args, replies, script>>
    /\ UNCHANGED <<mess, cmd, parts, sent, cur, done, qvars, rvars, ovars>>

\* Step 3: the next value of the handler is pulled and cut into chunks; a
\* failure of the handler goes to ErrorEmitting; the end of the handler ends
\* the dispatch.
Execute ==
    /\ pc = "Executing"
    /\ IF replies.out # <<>>
       THEN /\ parts' = split_string_after(Head(replies.out), MESSAGE_SIZE_LIMIT)
            /\ replies' = [replies EXCEPT !.out = Tail(replies.out)]
            /\ pc' = "Emitting"
            /\ UNCHANGED <<err, done>>
       ELSE IF replies.raises
       THEN /\ err' = "Kaboom!"
            /\ pc' = "ErrorEmitting"
            /\ UNCHANGED <<parts, replies, done>>
       ELSE /\ pc' = "Idle"
            /\ done' = done + 1
            /\ UNCHANGED <<parts, replies, err>>
    /\ UNCHANGED <<mess, cmd, args, script, sent, cur, qvars, rvars, ovars>>

\* Steps 5 and 6: the chunks of the current item are sent in order, each as
\* a message of its own.
Emit ==
    /\ pc = "Emitting"
    /\ LET m == build_reply(mess, Head(parts)) IN
         /\ outgoing_message_queue' = send_message(outgoing_message_queue, m)
         /\ sent' = Append(sent, m)
    /\ parts' = Tail(parts)
    /\ pc' = IF Tail(parts) = <<>> THEN "Executing" ELSE "Emitting"
    /\ UNCHANGED <<mess, cmd, args, replies, err, script, cur, done,
                   incoming_stanza_queue, pushed, rvars, ovars>>

\* Step 4: one synthetic error message, the marker and the description of
\* the failure, ends the dispatch.
ErrorEmit ==
    /\ pc = "ErrorEmitting"
    /\ LET m == build_reply(mess, <<MSG_ERROR_OCCURRED, err>>) IN
         /\ outgoing_message_queue' = send_message(outgoing_message_queue, m)
         /\ sent' = Append(sent, m)
    /\ pc' = "Idle"
    /\ done' = done + 1
    /\ UNCHANGED <<mess, cmd, args, replies, parts, err, script, cur,
                   incoming_stanza_queue, pushed, rvars, ovars>>

\* tests:22-23, test.py:140-141: the test takes the oldest sent message.
pop_message ==
    /\ outgoing_message_queue # <<>>
    /\ outgoing_message_queue' = Tail(outgoing_message_queue)
    /\ UNCHANGED <<incoming_stanza_queue, pushed, dvars, rvars, ovars>>

Next ==
    \/ execute_and_send_call
    \/ Execute
    \/ Emit
    \/ ErrorEmit
    \/ pop_message

Spec == Init /\ [][Next]_vars


----------------------------------------------------------------------------
(* The test backend: the test thread pushes stanzas, the bot thread serves  *)
(* them one at a time.                                                      *)

\* test.py:144-145 (and stop, test.py:233, which pushes the quit message)
push_message ==
    /\ pushed < MaxInbound
    /\ \E entry \in ServeLines \cup {QUIT_MESSAGE} :
         incoming_stanza_queue' =
             Append(incoming_stanza_queue, [stanza_type |-> STZ_MSG, entry |-> entry])
    /\ pushed' = pushed + 1
    /\ UNCHANGED <<outgoing_message_queue, dvars, rvars, ovars>>

\* A faulty variant of the way out that does not call shutdown.
finally_block_no_shutdown(log) == log \o <<"disconnect_callback">>

\* test.py:101-105   finally: self.disconnect_callback(); self.shutdown()
finally_block(log) == log \o <<"disconnect_callback", "shutdown">>

\* A faulty variant that takes the next stanza while the dispatch of the
\* one before is still running.
serve_forever_eager ==
    /\ pc # "Stopped"
    /\ incoming_stanza_queue # <<>>
    /\ LET stanza == Head(incoming_stanza_queue) IN
         IF stanza.entry = QUIT_MESSAGE
         THEN /\ pc' = "Stopped"
              /\ exit_cause' = "quit"
              /\ exit_log' = finally_block(exit_log)
              /\ UNCHANGED <<mess, sent, cur>>
         ELSE /\ mess' = stanza_message(stanza.entry, cur + 1)
              /\ cur' = cur + 1
              /\ sent' = <<>>
              /\ pc' = "Resolving"
              /\ UNCHANGED <<exit_cause, exit_log>>
    /\ incoming_stanza_queue' = Tail(incoming_stanza_queue)
    /\ UNCHANGED <<cmd, args, replies, parts, err, script, done,
                   outgoing_message_queue, pushed, rvars, cvars, jvars, gvars,
                   backend_out, pending, zapped, ident, room_op>>

\* A faulty variant in which the loop also ends when the dispatch before
\* reported a failure.
serve_forever_ends_on_failure ==
    /\ pc = "Idle"
    /\ incoming_stanza_queue # <<>>
    /\ LET stanza == Head(incoming_stanza_queue) IN
         IF stanza.entry = QUIT_MESSAGE \/ ErrorsIn(sent) # {}
         THEN /\ pc' = "Stopped"
              /\ exit_cause' = "quit"
              /\ exit_log' = finally_block(exit_log)
              /\ UNCHANGED <<mess, sent, cur>>
         ELSE /\ mess' = stanza_message(stanza.entry, cur + 1)
              /\ cur' = cur + 1
              /\ sent' = <<>>
              /\ pc' = "Resolving"
              /\ UNCHANGED <<exit_cause, exit_log>>
    /\ incoming_stanza_queue' = Tail(incoming_stanza_queue)
    /\ UNCHANGED <<cmd, args, replies, parts, err, script, done,
                   outgoing_message_queue, pushed, rvars, cvars, jvars, gvars,
                   backend_out, pending, zapped, ident, room_op>>

\* test.py:79-88, 101-105: one turn of the loop: the oldest stanza is taken;
\* the quit message ends the loop, and the finally block runs; a message
\* stanza is handed to callback_message, which returns before the next
\* turn.
serve_forever ==
    /\ pc = "Idle"
    /\ incoming_stanza_queue # <<>>
    /\ LET stanza == Head(incoming_stanza_queue) IN
         IF stanza.entry = QUIT_MESSAGE
         THEN /\ pc' = "Stopped"
              /\ exit_cause' = "quit"
              /\ exit_log' = finally_block(exit_log)
              /\ UNCHANGED <<mess, sent, cur>>
         ELSE /\ mess' = stanza_message(stanza.entry, cur + 1)
              /\ cur' = cur + 1
              /\ sent' = <<>>
              /\ pc' = "Resolving"
              /\ UNCHANGED <<exit_cause, exit_log>>
    /\ incoming_stanza_queue' = Tail(incoming_stanza_queue)
    /\ UNCHANGED <<cmd, args, replies, parts, err, script, done,
                   outgoing_message_queue, pushed, rvars, cvars, jvars, gvars,
                   backend_out, pending, zapped, ident, room_op>>

\* test.py:78-105: an exception ends the loop: EOFError or
\* KeyboardInterrupt, raised while the thread waits in get() or runs a
\* callback, is swallowed (97-100); any other exception, raised by a
\* callback, goes on to the caller.  Either way the finally block runs
\* first, and the dispatch under way is abandoned.
serve_forever_raises ==
    /\ pc # "Stopped"
    /\ \E cause \in {"EOFError", "KeyboardInterrupt", "Exception"} :
         /\ cause = "Exception" => pc # "Idle"
         /\ exit_cause' = cause
    /\ exit_log' = finally_block(exit_log)
    /\ pc' = "Stopped"
    /\ UNCHANGED <<mess, cmd, args, replies, parts, err, script, sent, cur, done,
                   qvars, rvars, cvars, jvars, gvars, backend_out, pending, zapped, ident,
                   room_op>>

ServeNext ==
    \/ push_message
    \/ serve_forever
    \/ Resolve
    \/ Parse
    \/ Execute
    \/ Emit
    \/ ErrorEmit
    \/ pop_message

ServeSpec == Init /\ [][ServeNext]_vars

\* The serving thread with the exceptions that may end its loop.
LoopNext ==
    \/ ServeNext
    \/ serve_forever_raises

LoopSpec == Init /\ [][LoopNext]_vars

\* The bot thread runs whenever it can: a dispatch under way goes on, and a
\* queued stanza is taken.
ServeFairSpec ==
    ServeSpec /\ WF_vars(serve_forever \/ Resolve \/ Parse \/ Execute \/ Emit \/ ErrorEmit)


----------------------------------------------------------------------------
(* Properties of one dispatch *)

BodiesOf(ms) == [i \in 1..Len(ms) |-> ms[i].body]
\* The messages of ms before its last.
Front(ms) == SubSeq(ms, 1, Len(ms) - 1)
\* The number of chunks of a text of length n.
ChunkCount(n) == IF n = 0 THEN 1 ELSE (n + MESSAGE_SIZE_LIMIT - 1) \div MESSAGE_SIZE_LIMIT
RECURSIVE ChunkTotal(_)
ChunkTotal(texts) ==
    IF texts = <<>> THEN 0 ELSE ChunkCount(Len(Head(texts))) + ChunkTotal(Tail(texts))
FitsLimit(texts) == \A i \in 1..Len(texts) : Len(texts[i]) <= MESSAGE_SIZE_LIMIT
IsSuffix(q, s) == Len(q) <= Len(s) /\ q = SubSeq(s, Len(s) - Len(q) + 1, Len(s))

\* The dispatch of the current inbound message has returned.
Finished == pc = "Idle" /\ cur > 0

\* C1 as stated: a handler that produces N values and then fails makes the
\* dispatcher send exactly N normal messages, the N values in production
\* order, followed by exactly one synthetic error message, and nothing else.
C1_AsStated ==
    (Finished /\ script.raises) =>
        /\ Len(sent) = Len(script.out) + 1
        /\ BodiesOf(Front(sent)) = script.out
        /\ ErrorsIn(sent) = {Len(sent)}

\* C1 amended: a handler that produces N values and then fails makes the
\* dispatcher send the N values in production order, each as one message
\* when it is within the size limit and as its chunks otherwise, followed by
\* exactly one synthetic error message, and nothing else; when the N values
\* are all within the limit these are exactly N normal messages.
C1_PartialThenError ==
    (Finished /\ script.raises) =>
        /\ Len(sent) = ChunkTotal(script.out) + 1
        /\ ErrorsIn(sent) = {Len(sent)}
        /\ sent[Len(sent)].body = <<MSG_ERROR_OCCURRED, "Kaboom!">>
        /\ Concat(BodiesOf(Front(sent))) = Concat(script.out)
        /\ FitsLimit(BodiesOf(sent))
        /\ FitsLimit(script.out) => BodiesOf(Front(sent)) = script.out
        /\ IsSuffix(outgoing_message_queue, sent)

\* Two values within the limit, then the failure: two messages and the error.
C1_Witness ==
    /\ Finished /\ script.raises /\ script.gen
    /\ script.out = <<<<"f">>, <<"b">>>>
    /\ BodiesOf(sent) = <<<<"f">>, <<"b">>, <<MSG_ERROR_OCCURRED, "Kaboom!">>>>


\* The messages of ms that are not the synthetic error message.
NormalOf(ms) == SelectSeq(ms, LAMBDA m : ~IsError(m))

\* C3 as stated: when a handler returns a lazy sequence, each produced value
\* is sent as its own outbound message, and the messages reach the backend's
\* send in exactly the production order.
C3_AsStated ==
    (Finished /\ script.gen) =>
        /\ BodiesOf(NormalOf(sent)) = script.out
        /\ IsSuffix(outgoing_message_queue, sent)

\* C3 amended: when a handler returns a lazy sequence, each produced value
\* is sent as its own outbound message, or as its own chunks when it is
\* longer than the size limit, and the messages reach the backend's send in
\* production order: at every moment of the dispatch what was sent, what is
\* being sent and what is still to be produced make up the produced values
\* in order, nothing is sent twice or lost, the queue of the backend holds
\* the sent messages in the order sent, and at the end the values within the
\* size limit are the messages, one each.
C3_LazyInOrder ==
    (cur > 0 /\ script.gen) =>
        /\ Concat(BodiesOf(NormalOf(sent))) \o Concat(parts) \o Concat(replies.out)
               = Concat(script.out)
        /\ IsSuffix(outgoing_message_queue, sent)
        /\ (Finished /\ FitsLimit(script.out)) => BodiesOf(NormalOf(sent)) = script.out
        /\ Finished => Len(NormalOf(sent)) = ChunkTotal(script.out)

\* yield_args_as_str on the arguments f, b: the messages f and b, both still
\* in the queue of the backend.
C3_Witness ==
    /\ Finished /\ script.gen /\ ~script.raises
    /\ cmd = "yield_args_as_str"
    /\ BodiesOf(outgoing_message_queue) = <<<<"f">>, <<"b">>>>

\* C4: a returned text longer than the size limit is sent as the smallest
\* number of contiguous chunks of at most the limit: the chunks are each at
\* most the limit, their concatenation in send order is the text, there are
\* ceil(length / limit) of them (3 for a text of 3 x limit) and no further
\* message follows.
C4_LongReturnSplit ==
    (Finished /\ ~script.gen /\ ~script.raises /\ Len(script.out) = 1
        /\ Len(script.out[1]) > MESSAGE_SIZE_LIMIT) =>
        /\ FitsLimit(BodiesOf(sent))
        /\ Concat(BodiesOf(sent)) = script.out[1]
        /\ Len(sent) = ChunkCount(Len(script.out[1]))
        /\ Len(script.out[1]) = 3 * MESSAGE_SIZE_LIMIT => Len(sent) = 3
        /\ ErrorsIn(sent) = {}
        /\ IsSuffix(outgoing_message_queue, sent)

\* return_long_output: three messages, each LONG_TEXT_STRING.
C4_Witness ==
    /\ Finished /\ cmd = "return_long_output"
    /\ BodiesOf(outgoing_message_queue) = [i \in 1..3 |-> LONG_TEXT_STRING]

\* The index in the sent messages before the first chunk of item i.
RECURSIVE ChunkStart(_, _)
ChunkStart(texts, i) ==
    IF i <= 1 THEN 0 ELSE ChunkStart(texts, i - 1) + ChunkCount(Len(texts[i - 1]))

\* C5: chunking is applied to each yielded item on its own and in order:
\* when a handler yields k oversized items the sent messages are k runs, the
\* i-th run being the chunks of item i alone (all chunks of item i before
\* any chunk of item i+1, no chunk holding text of two items); two items of
\* 3 x limit give exactly 6 messages.
C5_ChunksPerItem ==
    (Finished /\ script.gen /\ ~script.raises
        /\ \A i \in 1..Len(script.out) : Len(script.out[i]) > MESSAGE_SIZE_LIMIT) =>
        /\ Len(sent) = ChunkTotal(script.out)
        /\ FitsLimit(BodiesOf(sent))
        /\ \A i \in 1..Len(script.out) :
              Concat(SubSeq(BodiesOf(sent), ChunkStart(script.out, i) + 1,
                            ChunkStart(script.out, i + 1))) = script.out[i]
        /\ IsSuffix(outgoing_message_queue, sent)
        /\ script.out = [i \in 1..2 |-> Times(LONG_TEXT_STRING, 3)] => Len(sent) = 6

\* yield_long_output: six messages, each LONG_TEXT_STRING.
C5_Witness ==
    /\ Finished /\ cmd = "yield_long_output"
    /\ BodiesOf(outgoing_message_queue) = [i \in 1..6 |-> LONG_TEXT_STRING]

\* C6: a handler that returns a single string shorter than the size limit
\* produces exactly one outbound message whose body is exactly that string.
C6_ShortReturnOneMessage ==
    /\ (Finished /\ ~script.gen /\ ~script.raises /\ Len(script.out) = 1
           /\ Len(script.out[1]) < MESSAGE_SIZE_LIMIT) =>
           /\ BodiesOf(sent) = script.out
           /\ IsSuffix(outgoing_message_queue, sent)
    \* tests:143-148: return_args_as_str answers the joined arguments
    /\ (Finished /\ cmd = "return_args_as_str" /\ Len(args) < MESSAGE_SIZE_LIMIT) =>
           BodiesOf(sent) = <<args>>

\* return_args_as_str on the arguments f, b: the one message "fb".
C6_Witness ==
    /\ Finished /\ cmd = "return_args_as_str" /\ args = <<"f", "b">>
    /\ BodiesOf(outgoing_message_queue) = <<<<"f", "b">>>>


----------------------------------------------------------------------------
(* Properties of the serving thread *)

\* C2: every dispatch cycle ends in Idle; ErrorEmitting is entered only from
\* Resolving, Parsing or Executing, appends exactly one synthetic error
\* message and goes to Idle; a failure does not end the serving thread, so a
\* stanza queued behind a failed command is taken and dispatched.
C2_EndsInIdle ==
    /\ [](pc \in {"Idle", "Resolving", "Parsing", "Executing", "Emitting",
                  "ErrorEmitting", "Stopped"})
    /\ (pc \notin {"Idle", "Stopped"}) ~> (pc = "Idle")
    /\ [][(pc' = "ErrorEmitting" /\ pc # "ErrorEmitting")
             => pc \in {"Resolving", "Parsing", "Executing"}]_vars
    /\ [][pc = "ErrorEmitting" /\ pc' # pc
             => /\ pc' = "Idle"
                /\ sent' = Append(sent, build_reply(mess, <<MSG_ERROR_OCCURRED, err>>))
                /\ outgoing_message_queue' =
                       Append(outgoing_message_queue,
                              build_reply(mess, <<MSG_ERROR_OCCURRED, err>>))]_vars
    /\ [](Finished => /\ Cardinality(ErrorsIn(sent)) <= 1
                      /\ ErrorsIn(sent) \subseteq {Len(sent)}
                      /\ done = cur)
    /\ [][pc' = "Stopped" /\ pc # "Stopped"
             => /\ pc = "Idle"
                /\ incoming_stanza_queue # <<>>
                /\ Head(incoming_stanza_queue).entry = QUIT_MESSAGE]_vars
    /\ (incoming_stanza_queue # <<>> /\ pc # "Stopped")
           ~> (incoming_stanza_queue = <<>> \/ pc = "Stopped")

\* The second inbound message was dispatched to its end without an error
\* after the first one failed (its error message is still in the queue).
C2_Witness ==
    /\ Finished /\ cur = 2 /\ done = 2
    /\ ErrorsIn(sent) = {}
    /\ Len(sent) > 0
    /\ \E i \in 1..Len(outgoing_message_queue) :
          IsError(outgoing_message_queue[i]) /\ outgoing_message_queue[i].irt = 1

----------------------------------------------------------------------------
(* The chat-room relay *)

Bare(n, d) == [node |-> n, domain |-> d]
RelayUsers == {Bare("gbin", "localhost"), Bare("bob", "localhost")}
RelayRooms == {TEST_ROOM, Bare("dev", "conference.localhost")}

\* The relay tables: one configured user and one configured room, each with
\* up to MaxTargets targets in a configured order; the other user and the
\* other room are keys of no table.  The two tables are set independently.
RelayConfigs ==
    {[CHATROOM_RELAY |-> [u \in {Bare("gbin", "localhost")} |-> rooms],
      REVERSE_CHATROOM_RELAY |-> [r \in {TEST_ROOM} |-> users]] :
        rooms \in SeqsUpTo(RelayRooms, MaxTargets),
        users \in SeqsUpTo(RelayUsers, MaxTargets)}
        \cup {TemplateConfig}

\* The inbound messages the relay is called back with: direct messages of
\* users, with and without a resource, and room messages of occupants.
RelayMessages ==
    {[type |-> "chat", frm |-> [node |-> u.node, domain |-> u.domain, resource |-> r],
      body |-> b] : u \in RelayUsers, r \in {None, <<"r">>}, b \in {<<"h", "i">>}}
        \cup
    {[type |-> "groupchat", frm |-> [node |-> r.node, domain |-> r.domain, resource |-> n],
      body |-> b] : r \in RelayRooms, n \in {None, <<"a">>}, b \in {<<"h", "i">>}}

\* str() of a value that may be None.
Str(x) == IF x = None THEN <<"N", "o", "n", "e">> ELSE x

\* core_plugins/chatRoom.py:302 mess.frm.person, builtins/chatRoom.py:45
\* get_jid_from_message(mess): the sender of a direct message in bare form,
\* without the resource.
username_of(ms) == Bare(ms.frm.node, ms.frm.domain)

\* builtins/chatRoom.py:54   chat_room = fr.node + '@' + fr.domain
chat_room_of(fr) == Bare(fr.node, fr.domain)

\* builtins/chatRoom.py:58   body = '[%s] %s' % (fr.resource, mess.getBody())
relayed_body(fr, body) == <<"[">> \o Str(fr.resource) \o <<"]", " ">> \o body

\* The sends callback_message makes for ms when none of them fails, in the
\* order it makes them.
Fanout(cfg, ms) ==
    IF ms.type = "chat"
    THEN IF username_of(ms) \in DOMAIN cfg.CHATROOM_RELAY
         THEN LET rooms == cfg.CHATROOM_RELAY[username_of(ms)] IN
              [i \in 1..Len(rooms) |->
                  [to |-> rooms[i], body |-> ms.body, message_type |-> "groupchat"]]
         ELSE <<>>
    ELSE IF ms.type = "groupchat"
    THEN IF chat_room_of(ms.frm) \in DOMAIN cfg.REVERSE_CHATROOM_RELAY
         THEN LET users_to_relay_to == cfg.REVERSE_CHATROOM_RELAY[chat_room_of(ms.frm)] IN
              [i \in 1..Len(users_to_relay_to) |->
                  [to |-> users_to_relay_to[i], body |-> relayed_body(ms.frm, ms.body),
                   message_type |-> "chat"]]
         ELSE <<>>
    ELSE <<>>

\* core_plugins/chatRoom.py:307-308, 316-317 inside the try of line 299: the
\* calls of send, in order; the call that raises ends the loop, and the
\* except clause of line 318 is the next thing to run.
relay_loop(fanout, failed) ==
    IF failed = 0 THEN fanout ELSE SubSeq(fanout, 1, failed)

\* Where an exception may be raised inside the try of line 299: nowhere,
\* while the message is read (lines 300-302, 310-311), while the table is
\* looked up (lines 303, 306, 312-313), or in a call of send (308, 317).
RelayStages == {"none", "read", "lookup", "send"}

\* A faulty variant in which the except clause lets the exception go on to
\* the caller.
relay_except_reraises(stage, failed) ==
    [called |-> TRUE, stage |-> stage, failed |-> failed,
     logged |-> stage # "none", raised |-> stage # "none"]

\* core_plugins/chatRoom.py:318-319 (builtins/chatRoom.py:61-62): every
\* Exception raised inside the try is logged, and the callback returns.
relay_except(stage, failed) ==
    [called |-> TRUE, stage |-> stage, failed |-> failed,
     logged |-> stage # "none", raised |-> FALSE]

\* core_plugins/chatRoom.py:298-319 (builtins/chatRoom.py:39-62): the whole
\* callback for one inbound message.  stage says where an exception is
\* raised; for stage "send", failed = k says that the k-th call of send
\* raises.  relay_sends are the calls of send made; the exception is logged
\* and does not leave the callback, and nothing else is sent.
callback_message ==
    \E ms \in RelayMessages, stage \in RelayStages :
      \E failed \in IF stage = "send" THEN 1..Len(Fanout(relay_cfg, ms)) ELSE {0} :
        /\ relay_mess' = ms
        /\ relay_sends' = IF stage \in {"read", "lookup"} THEN <<>>
                          ELSE relay_loop(Fanout(relay_cfg, ms), failed)
        /\ relay_out' = relay_except(stage, failed)
        /\ UNCHANGED <<relay_cfg, qvars, dvars, ovars>>

RelayInit ==
    /\ DispatcherInit
    /\ relay_cfg \in RelayConfigs
    /\ RelayIdle
    /\ OtherIdle

RelayNext == callback_message

RelaySpec == RelayInit /\ [][RelayNext]_vars


----------------------------------------------------------------------------
(* Properties of the relay *)

TargetsOf(sends) == [i \in 1..Len(sends) |-> sends[i].to]
DirectFromKey ==
    /\ relay_out.called /\ relay_mess.type = "chat"
    /\ Bare(relay_mess.frm.node, relay_mess.frm.domain) \in DOMAIN relay_cfg.CHATROOM_RELAY
RoomFromKey ==
    /\ relay_out.called /\ relay_mess.type = "groupchat"
    /\ Bare(relay_mess.frm.node, relay_mess.frm.domain)
           \in DOMAIN relay_cfg.REVERSE_CHATROOM_RELAY
ConfiguredRooms ==
    relay_cfg.CHATROOM_RELAY[Bare(relay_mess.frm.node, relay_mess.frm.domain)]
ConfiguredUsers ==
    relay_cfg.REVERSE_CHATROOM_RELAY[Bare(relay_mess.frm.node, relay_mess.frm.domain)]

\* C8: on a direct message whose sender, in bare form, is a key of the
\* user-to-rooms table the relay sends the body unchanged as one broadcast
\* to each room configured for that sender, in configured order; a direct
\* message of a sender that is no key produces no relay send.
C8_DirectToRooms ==
    (relay_out.called /\ relay_mess.type = "chat") =>
        IF DirectFromKey
        THEN relay_sends =
                 [i \in 1..Len(ConfiguredRooms) |->
                     [to |-> ConfiguredRooms[i], body |-> relay_mess.body,
                      message_type |-> "groupchat"]]
        ELSE relay_sends = <<>>

\* C8, what the code does: the broadcasts go, in configured order, to the
\* configured rooms up to the first one whose send fails, and to all of them
\* when no send fails.
C8_DirectToRoomsUntilFailure ==
    (relay_out.called /\ relay_mess.type = "chat") =>
        IF DirectFromKey
        THEN /\ relay_sends =
                    [i \in 1..Len(relay_sends) |->
                        [to |-> ConfiguredRooms[i], body |-> relay_mess.body,
                         message_type |-> "groupchat"]]
             /\ Len(relay_sends) =
                    IF relay_out.stage \in {"read", "lookup"} THEN 0
                    ELSE IF relay_out.failed = 0 THEN Len(ConfiguredRooms)
                    ELSE relay_out.failed
        ELSE relay_sends = <<>>

\* C9: on a broadcast whose room is a key of the room-to-users table the
\* relay sends one direct message to each user configured for that room, in
\* configured order, with the body '[<name of the sending occupant>] <body>';
\* a broadcast of a room that is no key produces no relay send.
C9_RoomToUsers ==
    (relay_out.called /\ relay_mess.type = "groupchat") =>
        IF RoomFromKey
        THEN relay_sends =
                 [i \in 1..Len(ConfiguredUsers) |->
                     [to |-> ConfiguredUsers[i],
                      body |-> <<"[">> \o Str(relay_mess.frm.resource) \o <<"]", " ">>
                                  \o relay_mess.body,
                      message_type |-> "chat"]]
        ELSE relay_sends = <<>>

\* C9, what the code does: the direct messages go, in configured order, to
\* the configured users up to the first one whose send fails, and to all of
\* them when no send fails.
C9_RoomToUsersUntilFailure ==
    (relay_out.called /\ relay_mess.type = "groupchat") =>
        IF RoomFromKey
        THEN /\ relay_sends =
                    [i \in 1..Len(relay_sends) |->
                        [to |-> ConfiguredUsers[i],
                         body |-> <<"[">> \o Str(relay_mess.frm.resource) \o <<"]", " ">>
                                     \o relay_mess.body,
                         message_type |-> "chat"]]
             /\ Len(relay_sends) =
                    IF relay_out.stage \in {"read", "lookup"} THEN 0
                    ELSE IF relay_out.failed = 0 THEN Len(ConfiguredUsers)
                    ELSE relay_out.failed
        ELSE relay_sends = <<>>

\* The configured targets of the fan-out of the relay's last callback.
ConfiguredTargets ==
    IF DirectFromKey THEN ConfiguredRooms
    ELSE IF RoomFromKey THEN ConfiguredUsers
    ELSE <<>>

\* The targets of the calls of send that did not raise.
Delivered ==
    IF relay_out.failed = 0 THEN TargetsOf(relay_sends)
    ELSE TargetsOf(SubSeq(relay_sends, 1, relay_out.failed - 1)
                       \o SubSeq(relay_sends, relay_out.failed + 1, Len(relay_sends)))

\* C10: within one fan-out a failure while sending to one target does not
\* disrupt the delivery to the others: every other configured target of the
\* fan-out still receives the relayed message.
C10_OtherTargetsStillServed ==
    (relay_out.called /\ relay_out.failed # 0) =>
        Delivered =
            SubSeq(ConfiguredTargets, 1, relay_out.failed - 1)
                \o SubSeq(ConfiguredTargets, relay_out.failed + 1, Len(ConfiguredTargets))

\* C10, what the code does: the failure is logged and does not leave the
\* callback; the targets before the failing one were served, the targets
\* after it get nothing.
C10_FailureEndsFanout ==
    (relay_out.called /\ relay_out.failed # 0) =>
        /\ Delivered = SubSeq(ConfiguredTargets, 1, relay_out.failed - 1)
        /\ Len(relay_sends) = relay_out.failed
        /\ relay_out.logged
        /\ ~relay_out.raised

\* The relay's calls of send are some of the sends of the fan-out, in order
\* from its first one.
IsPrefix(p, s) == Len(p) <= Len(s) /\ p = SubSeq(s, 1, Len(p))

\* C11: a failure raised during relay forwarding, while the message is read,
\* the table is looked up or a target is sent to, never leaves the relay's
\* callback_message and never produces a message to the user: the callback
\* returns normally, the failure is only logged, the only sends made are
\* relay sends of the fan-out, and no reply is put on the outgoing queue.
C11_RelayFailureContained ==
    relay_out.called =>
        /\ ~relay_out.raised
        /\ relay_out.logged = (relay_out.stage # "none")
        /\ IsPrefix(relay_sends, Fanout(relay_cfg, relay_mess))
        /\ relay_out.stage \in {"read", "lookup"} => relay_sends = <<>>
        /\ outgoing_message_queue = <<>>

\* The lookup of the table failed for a direct message of a configured
\* user: logged, nothing sent, the callback returned.
C11_Witness ==
    /\ relay_out.called /\ relay_out.stage = "lookup" /\ relay_out.logged
    /\ ~relay_out.raised
    /\ relay_mess.type = "chat"
    /\ Bare(relay_mess.frm.node, relay_mess.frm.domain) \in DOMAIN relay_cfg.CHATROOM_RELAY
    /\ relay_sends = <<>>

\* The calls of send of one callback all go one way, the way the type of
\* the inbound message calls for: broadcasts to rooms for a direct message,
\* direct messages to users for a broadcast.
OneDirection(ms, sends) ==
    \A i \in 1..Len(sends) :
        sends[i].message_type = IF ms.type = "chat" THEN "groupchat" ELSE "chat"

\* C33: for a single inbound message the relay forwards in at most one
\* direction (direct-to-rooms or broadcast-to-users, never both), sends
\* exactly as many messages as there are configured targets for the
\* matched key, and changes neither the relay tables, the joined-room set
\* nor the connected flag.  (The key is matched when reading the message
\* and looking up the table raised nothing.)
C33_OneDirectionAllTargets ==
    [][(relay_out'.called /\ relay_out'.stage \in {"none", "send"}) =>
          /\ OneDirection(relay_mess', relay_sends')
          /\ Len(Delivered') = Len(ConfiguredTargets')
          /\ UNCHANGED <<relay_cfg, joined_rooms, connected>>]_vars

\* C33, what the code does: one direction, no change of the tables, the
\* joined rooms and the flag; as many messages as configured targets when
\* no send fails, and only those before the failing one when one does.
C33_OneDirectionUntilFailure ==
    [][(relay_out'.called /\ relay_out'.stage \in {"none", "send"}) =>
          /\ OneDirection(relay_mess', relay_sends')
          /\ Len(Delivered') = IF relay_out'.failed = 0 THEN Len(ConfiguredTargets')
                                ELSE relay_out'.failed - 1
          /\ UNCHANGED <<relay_cfg, joined_rooms, connected>>]_vars


----------------------------------------------------------------------------
(* The chat-room plugin on connection: room joins and keep-alive *)

\* builtins/chatRoom.py:24   Timer(10.0, self.keep_alive)
KEEP_ALIVE_INTERVAL == 10

\* The configurations: either ChatRoom plugin, a presence list of up to
\* MaxPresence rooms in a configured order, HipChat mode or not.
ConnectConfigs ==
    {[plugin |-> p, CHATROOM_PRESENCE |-> rooms, HIPCHAT_MODE |-> h] :
        p \in {"builtins", "core_plugins"},
        rooms \in SeqsUpTo(RelayRooms, MaxPresence),
        h \in BOOLEAN}

\* How the join of one room may go.  builtins/chatRoom.py:34: join_room
\* returns or raises.  core_plugins/chatRoom.py:50-61: query_room(room).join
\* returns ("ok"); raises NotImplementedError, and the legacy join_room
\* returns ("legacy_ok") or raises ("legacy_raises"); raises
\* SlackAPIResponseError with error "user_is_bot" ("user_is_bot"); or raises
\* anything else ("raises").
JoinOutcomes(plugin) ==
    IF plugin = "builtins" THEN {"ok", "raises"}
    ELSE {"ok", "legacy_ok", "legacy_raises", "user_is_bot", "raises"}

\* The outcomes that end the for loop: an exception no except clause of the
\* loop body handles leaves callback_connect (builtins line 34 has no try;
\* core_plugins lines 56 and 59 raise), and line 61 returns.
Aborts(o) == o \in {"raises", "legacy_raises", "user_is_bot"}
Raises(o) == o \in {"raises", "legacy_raises"}

\* builtins/chatRoom.py:32-34, core_plugins/chatRoom.py:42-61: the joins
\* attempted, in the order of the presence list, up to and including the
\* first one that ends the loop.
join_loop(presence, outcomes) ==
    LET ends == {i \in 1..Len(presence) : Aborts(outcomes[i])}
        n == IF ends = {} THEN Len(presence)
             ELSE CHOOSE i \in ends : \A j \in ends : i <= j
    IN [i \in 1..n |-> [room |-> presence[i], outcome |-> outcomes[i]]]

\* A faulty variant that joins the rooms and starts the keep-alive on every
\* call.
connect_guard_always(c) == TRUE

\* builtins/chatRoom.py:30, core_plugins/chatRoom.py:40: if not self.connected
connect_guard(c) == ~c

\* builtins/chatRoom.py:16-26: the heartbeat is sent (to 'nobody' as a
\* groupchat message in HipChat mode, as a presence otherwise); then the
\* next call is scheduled on a daemon Timer.  When the send raises, the
\* lines 24-26 are not reached and no Timer is started.
keep_alive(cfg, hb, b) ==
    IF hb = "ok"
    THEN [timer |-> [armed |-> TRUE, due |-> KEEP_ALIVE_INTERVAL, daemon |-> TRUE],
          beats |-> IF b < MaxBeats THEN b + 1 ELSE b,
          heartbeat |-> IF cfg.HIPCHAT_MODE THEN "groupchat to nobody" ELSE "presence",
          raised |-> FALSE]
    ELSE [timer |-> NoTimer, beats |-> b, heartbeat |-> "", raised |-> TRUE]

\* builtins/chatRoom.py:28-37, core_plugins/chatRoom.py:38-61: the whole
\* callback.  outcomes says how the join of each room would go, hb how the
\* send of the heartbeat would.
callback_connect ==
    /\ connect_calls < MaxConnects
    /\ connect_calls' = connect_calls + 1
    /\ IF connect_guard(connected)
       THEN \E outcomes \in [1..Len(connect_cfg.CHATROOM_PRESENCE)
                                 -> JoinOutcomes(connect_cfg.plugin)],
               hb \in {"ok", "raises"} :
              LET log == join_loop(connect_cfg.CHATROOM_PRESENCE, outcomes)
                  last == log[Len(log)]
                  aborted == log # <<>> /\ Aborts(last.outcome)
                  starts == connect_cfg.plugin = "builtins" /\ ~aborted
                  k == keep_alive(connect_cfg, hb, beats)
              IN /\ connected' = TRUE
                 /\ join_log' = log
                 /\ timer' = IF starts THEN k.timer ELSE timer
                 /\ beats' = IF starts THEN k.beats ELSE beats
                 /\ pending' = IF starts /\ ~k.raised THEN pending + 1 ELSE pending
                 /\ heartbeat' = IF starts /\ ~k.raised THEN k.heartbeat ELSE heartbeat
                 /\ connect_out' =
                        [called |-> TRUE, noop |-> FALSE,
                         raised |-> \/ (aborted /\ Raises(last.outcome))
                                    \/ (starts /\ k.raised)]
       ELSE /\ connect_out' = [called |-> TRUE, noop |-> TRUE, raised |-> FALSE]
            /\ UNCHANGED <<connected, join_log, timer, beats, heartbeat, pending>>
    /\ UNCHANGED <<connect_cfg, dvars, qvars, rvars, jvars, gvars, backend_out, exit_log,
                   exit_cause, zapped, ident, room_op>>

\* The Timer of builtins/chatRoom.py:24-26 fires: keep_alive runs on the
\* Timer's own thread; the Timer that fired is pending no more, and the one
\* keep_alive starts is.
keep_alive_timer ==
    /\ timer.armed /\ timer.due = 0
    /\ \E hb \in {"ok", "raises"} :
         LET k == keep_alive(connect_cfg, hb, beats) IN
           /\ timer' = k.timer
           /\ beats' = k.beats
           /\ heartbeat' = IF k.raised THEN heartbeat ELSE k.heartbeat
           /\ pending' = IF k.raised THEN pending - 1 ELSE pending
    /\ UNCHANGED <<connect_cfg, connected, connect_calls, join_log, connect_out,
                   dvars, qvars, rvars, jvars, gvars, backend_out, exit_log, exit_cause,
                   zapped, ident, room_op>>

\* One time unit passes on the pending Timer.
Tick ==
    /\ timer.armed /\ timer.due > 0
    /\ timer' = [timer EXCEPT !.due = @ - 1]
    /\ UNCHANGED <<connect_cfg, connected, connect_calls, join_log, connect_out,
                   beats, heartbeat, dvars, qvars, rvars, jvars, gvars, xvars>>

\* A faulty variant that leaves the flag as it is.
connected_kept(c) == c

\* core_plugins/chatRoom.py:64   self.connected = False
connected_reset(c) == FALSE

\* core_plugins/chatRoom.py:63-65: the plugin is deactivated.  connect_out
\* describes the last call of callback_connect made since the plugin was
\* last deactivated, so it is cleared here.
deactivate ==
    /\ connect_cfg.plugin = "core_plugins"
    /\ connected
    /\ connected' = connected_reset(connected)
    /\ connect_out' = NoConnectOut
    /\ UNCHANGED <<connect_cfg, connect_calls, join_log, timer, beats,
                   heartbeat, dvars, qvars, rvars, jvars, gvars, xvars>>

ConnectInit ==
    /\ DispatcherInit
    /\ relay_cfg = TemplateConfig
    /\ RelayIdle
    /\ connect_cfg \in ConnectConfigs
    /\ ConnectIdle
    /\ LifecycleIdle
    /\ RegistryIdle
    /\ ExtraIdle

ConnectNext ==
    \/ callback_connect
    \/ keep_alive_timer
    \/ Tick
    \/ deactivate

ConnectSpec == ConnectInit /\ [][ConnectNext]_vars


----------------------------------------------------------------------------
(* Properties of the plugin on connection *)

\* C12: callback_connect is idempotent: a call while the plugin is already
\* connected attempts no room join and starts no keep-alive; it returns and
\* leaves the state as it was.
C12_ConnectIdempotent ==
    [][(connect_calls' # connect_calls /\ connected) =>
          /\ UNCHANGED <<connected, join_log, timer, beats, heartbeat, connect_cfg>>
          /\ UNCHANGED <<dvars, qvars, rvars, jvars, gvars, xvars>>
          /\ connect_out' = [called |-> TRUE, noop |-> TRUE, raised |-> FALSE]]_vars

\* A second call was made while connected, with the joins of the first call
\* and its keep-alive still as they were.
C12_Witness ==
    /\ connect_calls = 2 /\ connected
    /\ connect_out.noop
    /\ join_log # <<>>
    /\ timer.armed

RoomsOf(log) == [i \in 1..Len(log) |-> log[i].room]

\* C13: on the first callback_connect a join is attempted for every room of
\* the configured presence list, in configured order, even when the join of
\* an earlier room fails: a join failure neither skips the remaining rooms
\* nor makes callback_connect raise.
C13_EveryRoomAttempted ==
    connect_calls > 0 =>
        /\ RoomsOf(join_log) = connect_cfg.CHATROOM_PRESENCE
        /\ ~(/\ connect_out.raised
              /\ \E i \in 1..Len(join_log) : Raises(join_log[i].outcome))

\* C13, what the code does: the joins are attempted in configured order up
\* to the first one that fails; that failure ends the loop, and unless it is
\* the "user_is_bot" error of Slack it leaves callback_connect as an
\* exception.
C13_JoinsUntilFailure ==
    connect_calls > 0 =>
        /\ IsPrefix(RoomsOf(join_log), connect_cfg.CHATROOM_PRESENCE)
        /\ \A i \in 1..Len(join_log) : Aborts(join_log[i].outcome) => i = Len(join_log)
        /\ (\A i \in 1..Len(join_log) : ~Aborts(join_log[i].outcome))
              => RoomsOf(join_log) = connect_cfg.CHATROOM_PRESENCE
        /\ (connect_out.raised /\ connect_cfg.plugin = "core_plugins")
              => (join_log # <<>> /\ Raises(join_log[Len(join_log)].outcome))

\* C14: after the first callback_connect the relay has a recurring
\* keep-alive: a heartbeat was sent, and at every moment the next heartbeat
\* is scheduled at most the fixed interval ahead, on a timer that does not
\* block the exit of the process.
C14_KeepAliveRecurs ==
    connect_calls > 0 =>
        /\ beats >= 1
        /\ timer.armed
        /\ timer.due <= KEEP_ALIVE_INTERVAL
        /\ timer.daemon

\* C14, what the code does: only the plugin of builtins starts a keep-alive,
\* and only when every join returned; each heartbeat whose send returns
\* schedules the next one 10 time units ahead on a daemon timer, and a
\* heartbeat whose send raises schedules none.
C14_KeepAliveWhileSendsReturn ==
    /\ connect_cfg.plugin = "core_plugins" => (~timer.armed /\ beats = 0)
    /\ timer.armed => /\ timer.daemon
                       /\ timer.due <= KEEP_ALIVE_INTERVAL
                       /\ beats >= 1
                       /\ connected
                       /\ RoomsOf(join_log) = connect_cfg.CHATROOM_PRESENCE
    /\ [heartbeat |-> heartbeat, b |-> beats > 0] \in
           {[heartbeat |-> "", b |-> FALSE],
            [heartbeat |-> IF connect_cfg.HIPCHAT_MODE THEN "groupchat to nobody"
                           ELSE "presence", b |-> TRUE]}

\* What a call of callback_connect that runs its body leaves in the log:
\* joins in configured order from the first room on, all of them when no
\* join ends the loop.
JoinsAgain(log, presence) ==
    /\ IsPrefix(RoomsOf(log), presence)
    /\ presence # <<>> => log # <<>>
    /\ (\A i \in 1..Len(log) : ~Aborts(log[i].outcome)) => RoomsOf(log) = presence

\* C30: deactivating the plugin resets its connected flag, so the first
\* callback_connect after a deactivation is no no-op: it sets the flag and
\* goes through the configured rooms again, from the first one on; a
\* callback_connect with no deactivation since the call before it stays a
\* no-op that leaves the flag and the joins as they were.
C30_RejoinAfterDeactivate ==
    /\ [][(connect_out.called /\ ~connect_out'.called) => ~connected']_vars
    /\ [][(connect_calls' # connect_calls /\ connect_calls > 0 /\ ~connect_out.called) =>
             /\ ~connect_out'.noop
             /\ connected'
             /\ JoinsAgain(join_log', connect_cfg.CHATROOM_PRESENCE)]_vars
    /\ [][(connect_calls' # connect_calls /\ connect_out.called) =>
             /\ connect_out'.noop
             /\ UNCHANGED <<connected, join_log>>]_vars

\* The second callback_connect, made after a deactivation, joined both
\* configured rooms again.
C30_Witness ==
    /\ connect_cfg.plugin = "core_plugins"
    /\ connect_calls = 2
    /\ connect_out.called /\ ~connect_out.noop
    /\ connected
    /\ Len(join_log) = 2
    /\ RoomsOf(join_log) = connect_cfg.CHATROOM_PRESENCE

\* C29: at any time at most one keep-alive timer is pending: whatever the
\* number and order of callback_connect calls and timer firings, a second
\* heartbeat chain is never started; the one pending Timer is the one
\* self.t refers to.
C29_OneKeepAliveTimer ==
    /\ pending <= 1
    /\ pending = 1 <=> timer.armed

\* A second callback_connect was made after a Timer had fired and started
\* the next one.
C29_Witness ==
    /\ connect_calls = 2
    /\ connect_out.noop
    /\ beats >= 2
    /\ pending = 1


----------------------------------------------------------------------------
(* The test bot: start, stop, and the joined rooms of the test backend *)

\* config-template.py:9-10   BOT_IDENTITY['username']
BOT_USERNAME == Bare("err", "localhost")

\* test.py:40-52: a room handle; id tells the instances apart.
MUCRoom(jid, occupants, id) == [jid |-> jid, occupants |-> occupants, topic |-> None, id |-> id]

\* rooms[room] = handle
Put(rooms, room, handle) ==
    [r \in DOMAIN rooms \cup {room} |-> IF r = room THEN handle ELSE rooms[r]]
\* A faulty variant of pop that leaves the room in.
Pop_keeps(rooms, room) == rooms

\* rooms.pop(room)
Pop(rooms, room) == [r \in DOMAIN rooms \ {room} |-> rooms[r]]

\* A faulty variant that logs the entries and leaves them in the queue.
zap_queues_keeps(queue) == queue

\* test.py:157-164: entries are taken from the queue until it is empty.
RECURSIVE zap_queues(_)
zap_queues(queue) == IF queue = <<>> THEN queue ELSE zap_queues(Tail(queue))

\* A faulty variant that logs the rooms and keeps them.
leave_all_rooms_keeps(rooms) == rooms

\* test.py:167-172: every room is logged as left, and joined_rooms is bound
\* to a new empty dictionary.
leave_all_rooms(rooms) == NoRooms

\* A faulty variant of the test that never finds the bot started.
started_never(thread) == FALSE

\* test.py:214   self.bot_thread is not None   (test.py:231 tests the
\* opposite)
started(thread) == thread # "None"

\* test.py:207-222: start raises when the bot is already started; else the
\* bot thread is started, runs serve_forever anew, and start returns when
\* the bot has answered.
start ==
    /\ stops < MaxRuns
    /\ stop_pc = "idle"
    /\ IF started(bot_thread)
       THEN /\ life_out' = [op |-> "start", raised |-> TRUE]
            /\ UNCHANGED <<bot_thread, pc, exit_log, exit_cause>>
       ELSE /\ bot_thread' = "Thread"
            /\ pc' = "Idle"
            /\ exit_log' = <<>>
            /\ exit_cause' = ""
            /\ life_out' = [op |-> "start", raised |-> FALSE]
    /\ UNCHANGED <<mess, cmd, args, replies, parts, err, script, sent, cur, done,
                   qvars, rvars, cvars, gvars, backend_out, pending, zapped, ident,
                   room_op, joined_rooms, stop_pc, stops, left_at_stop, tpc, handles,
                   duplicate_join>>

\* test.py:224-234: stop raises when the bot is not started; else it pushes
\* the quit message and waits for the bot thread to end.
stop ==
    /\ stops < MaxRuns
    /\ stop_pc = "idle"
    /\ IF ~started(bot_thread)
       THEN /\ life_out' = [op |-> "stop", raised |-> TRUE]
            /\ UNCHANGED <<incoming_stanza_queue, stop_pc>>
       ELSE /\ incoming_stanza_queue' =
                   Append(incoming_stanza_queue,
                          [stanza_type |-> STZ_MSG, entry |-> QUIT_MESSAGE])
            /\ stop_pc' = "joining"
            /\ UNCHANGED life_out
    /\ UNCHANGED <<outgoing_message_queue, pushed, dvars, rvars, cvars, gvars, xvars, joined_rooms,
                   bot_thread, stops, left_at_stop, tpc, handles, duplicate_join>>

\* test.py:234-239: the bot thread has ended; the queues are emptied, all
\* rooms are left and the bot is not started any more.
stop_returns ==
    /\ stop_pc = "joining"
    /\ pc = "Stopped"
    /\ incoming_stanza_queue' = zap_queues(incoming_stanza_queue)
    /\ outgoing_message_queue' = zap_queues(outgoing_message_queue)
    /\ joined_rooms' = leave_all_rooms(joined_rooms)
    /\ left_at_stop' = Cardinality(DOMAIN joined_rooms)
    /\ bot_thread' = "None"
    /\ stop_pc' = "idle"
    /\ stops' = stops + 1
    /\ life_out' = [op |-> "stop", raised |-> FALSE]
    /\ zapped' = [incoming |-> Len(incoming_stanza_queue),
                  outgoing |-> Len(outgoing_message_queue)]
    /\ UNCHANGED <<pushed, dvars, rvars, cvars, gvars, backend_out, exit_log, exit_cause,
                   pending, ident, room_op, tpc, handles, duplicate_join>>

\* test.py:116-122, called on the serving bot thread: a room already joined
\* is left as it is (a warning is logged), a new room gets a new handle
\* whose only occupant is the bot.
join_room ==
    /\ bot_thread = "Thread" /\ pc = "Idle"
    /\ handles < MaxHandles
    /\ \E room \in RelayRooms :
         /\ room_op' = [op |-> "join_room", room |-> room, before |-> joined_rooms,
                        raised |-> FALSE]
         /\ IF room \in DOMAIN joined_rooms
            THEN UNCHANGED <<joined_rooms, handles>>
            ELSE /\ joined_rooms' =
                        Put(joined_rooms, room, MUCRoom(room, <<BOT_USERNAME>>, handles + 1))
                 /\ handles' = handles + 1
    /\ UNCHANGED <<dvars, qvars, rvars, cvars, gvars, backend_out, exit_log, exit_cause,
                   pending, zapped, ident, bot_thread, stop_pc, life_out, stops,
                   left_at_stop, tpc, duplicate_join>>

\* test.py:124-129: the room is taken out of joined_rooms; for a room that
\* is not joined the KeyError is caught and a warning logged.
leave_room ==
    /\ bot_thread = "Thread" /\ pc = "Idle"
    /\ \E room \in RelayRooms :
         /\ room_op' = [op |-> "leave_room", room |-> room, before |-> joined_rooms,
                        raised |-> FALSE]
         /\ IF room \in DOMAIN joined_rooms
            THEN joined_rooms' = Pop(joined_rooms, room)
            ELSE UNCHANGED joined_rooms
    /\ UNCHANGED <<dvars, qvars, rvars, cvars, gvars, backend_out, exit_log, exit_cause,
                   pending, zapped, ident, bot_thread, stop_pc, life_out, stops,
                   left_at_stop, tpc, handles, duplicate_join>>

LifecycleNext ==
    \/ start
    \/ join_room
    \/ leave_room
    \/ stop
    \/ serve_forever
    \/ stop_returns

LifecycleSpec == Init /\ [][LifecycleNext]_vars

\* C15: the joined-room set is empty at startup and empty again after
\* TestBot.stop() has returned, whatever joins and leaves happened while the
\* bot ran: whenever the bot is not started, no room is joined.
C15_NoRoomsWhenNotStarted ==
    /\ bot_thread = "None" => DOMAIN joined_rooms = {}
    /\ bot_thread = "None" => stop_pc = "idle"
    /\ left_at_stop <= Cardinality(RelayRooms)

\* stop has returned from a run in which a room was still joined.
C15_Witness ==
    /\ stops >= 1 /\ bot_thread = "None"
    /\ life_out = [op |-> "stop", raised |-> FALSE]
    /\ left_at_stop >= 1
    /\ DOMAIN joined_rooms = {}

\* The state start and stop can change, and the calls made.
LifecycleState ==
    <<bot_thread, joined_rooms, incoming_stanza_queue, outgoing_message_queue, pc, stop_pc,
      stops>>
StartCalled == life_out' # life_out /\ life_out'.op = "start"
StopCalled == stop_pc = "idle" /\ (stop_pc' = "joining" \/ (life_out' # life_out /\ life_out'.op = "stop"))

C28_JoinLeaveFrame ==
    /\ [][(room_op' # room_op /\ room_op'.op = "join_room"
              /\ room_op'.room \in DOMAIN joined_rooms)
             => (joined_rooms' = joined_rooms /\ ~room_op'.raised)]_vars
    /\ [][(room_op' # room_op /\ room_op'.op = "leave_room"
              /\ room_op'.room \notin DOMAIN joined_rooms)
             => (joined_rooms' = joined_rooms /\ ~room_op'.raised)]_vars
    /\ [][(room_op' # room_op /\ room_op'.op = "leave_room"
              /\ room_op.op = "join_room" /\ room_op.room = room_op'.room
              /\ room_op.room \notin DOMAIN room_op.before
              /\ room_op'.before = joined_rooms
              /\ DOMAIN joined_rooms = DOMAIN room_op.before \cup {room_op.room})
             => joined_rooms' = room_op.before]_vars
    /\ [](room_op.op # "" => room_op.before \in
              [DOMAIN room_op.before -> {MUCRoom(r, <<BOT_USERNAME>>, h) :
                                            r \in RelayRooms, h \in 1..MaxHandles}])

\* A room was joined next to another one and left again; the other room
\* is still there with its handle.
C28_Witness ==
    /\ room_op.op = "leave_room"
    /\ room_op.room = TEST_ROOM
    /\ room_op.before = joined_rooms @@ (TEST_ROOM :> MUCRoom(TEST_ROOM, <<BOT_USERNAME>>, 2))
    /\ DOMAIN joined_rooms = RelayRooms \ {TEST_ROOM}

\* A run of the test bot with its traffic: while the bot is started the
\* test thread pushes stanzas and the bot thread serves them; the replies
\* stay unread; the bot thread may end early on an exception of a callback.
RunNext ==
    \/ start
    \/ stop
    \/ stop_returns
    \/ (bot_thread = "Thread" /\ stop_pc = "idle" /\ push_message)
    \/ (bot_thread = "Thread"
          /\ (serve_forever \/ Resolve \/ Parse \/ Execute \/ Emit \/ ErrorEmit))
    \/ (bot_thread = "Thread" /\ pc # "Idle" /\ serve_forever_raises)

RunSpec == Init /\ [][RunNext]_vars

\* C27: after TestBot.stop() has returned, the incoming stanza queue and the
\* outgoing message queue are both empty, whatever was left unread or
\* unprocessed when the bot thread quit; so whenever the bot is not
\* started the queues are empty, and a following start() sees no stanza
\* and no reply of the run before.
C27_QueuesEmptyAfterStop ==
    /\ [][stops' # stops
             => (incoming_stanza_queue' = <<>> /\ outgoing_message_queue' = <<>>)]_vars
    /\ [](bot_thread = "None"
             => (incoming_stanza_queue = <<>> /\ outgoing_message_queue = <<>>))
    /\ [][(bot_thread = "None" /\ bot_thread' = "Thread")
             => (incoming_stanza_queue = <<>> /\ outgoing_message_queue = <<>>)]_vars

\* The bot thread ended early and left a stanza unprocessed and a reply
\* unread; stop found them and the bot was started again on empty queues.
C27_Witness ==
    /\ stops = 1
    /\ zapped.incoming >= 2
    /\ zapped.outgoing >= 1
    /\ bot_thread = "Thread"
    /\ incoming_stanza_queue = <<>> /\ outgoing_message_queue = <<>>


----------------------------------------------------------------------------
(* Concurrent calls of join_room and leave_room *)

\* test.py:118: thread t evaluates `room in joined_rooms`; for a room that
\* is joined the call ends with a warning.
join_room_test ==
    \E t \in Threads, room \in RelayRooms :
        /\ tpc[t].pc = "idle"
        /\ tpc' = [tpc EXCEPT ![t] =
                      IF room \in DOMAIN joined_rooms THEN ThreadIdle
                      ELSE [pc |-> "store", room |-> room]]
        /\ UNCHANGED <<dvars, qvars, rvars, cvars, gvars, xvars, joined_rooms, bot_thread, stop_pc,
                       life_out, stops, left_at_stop, handles, duplicate_join>>

\* test.py:121-122: thread t, which found the room not joined, creates the
\* handle and stores it under the room's key.
join_room_store ==
    \E t \in Threads :
        /\ tpc[t].pc = "store"
        /\ handles < MaxHandles
        /\ joined_rooms' =
               Put(joined_rooms, tpc[t].room,
                   MUCRoom(tpc[t].room, <<BOT_USERNAME>>, handles + 1))
        /\ handles' = handles + 1
        /\ duplicate_join' = (duplicate_join \/ tpc[t].room \in DOMAIN joined_rooms)
        /\ tpc' = [tpc EXCEPT ![t] = ThreadIdle]
        /\ UNCHANGED <<dvars, qvars, rvars, cvars, gvars, xvars, bot_thread, stop_pc, life_out, stops,
                       left_at_stop>>

\* The bot is started and serving; no room is joined.
JoinInit ==
    /\ DispatcherInit
    /\ relay_cfg = TemplateConfig
    /\ RelayIdle
    /\ connect_cfg = TemplateConnectConfig
    /\ ConnectIdle
    /\ joined_rooms = NoRooms
    /\ bot_thread = "Thread"
    /\ stop_pc = "idle"
    /\ life_out = [op |-> "start", raised |-> FALSE]
    /\ stops = 0
    /\ left_at_stop = 0
    /\ tpc = [t \in Threads |-> ThreadIdle]
    /\ handles = 0
    /\ duplicate_join = FALSE
    /\ RegistryIdle
    /\ ExtraIdle

JoinNext ==
    \/ join_room_test
    \/ join_room_store
    \/ leave_room

JoinSpec == JoinInit /\ [][JoinNext]_vars

\* C16: join and leave are mutually exclusive per room key: for every
\* interleaving of concurrent join_room calls for the same room exactly one
\* of them creates the room handle, and the handle stored in the joined-room
\* set is never replaced by a duplicate join.
C16_NoDuplicateJoin == ~duplicate_join


----------------------------------------------------------------------------
(* The command registry and command resolution *)

\* The command text is a sequence of whitespace-delimited tokens.  The
\* names that get registered, the plugins that register them, and the
\* descriptors.
Names == {"room", "room_create"}
Owners == {"ChatRoom", "Other"}
Descriptors == {[owner |-> o, handler |-> h] : o \in Owners, h \in {"h1", "h2"}}

\* The texts resolve is called with: a name, or the two tokens room create,
\* with or without an argument after them.
ResolveInputs ==
    {<<n>> \o rest : n \in Names \cup {"create"}, rest \in {<<>>, <<"x">>}}
        \cup {<<"room", "create">> \o rest : rest \in {<<>>, <<"x">>}}

\* A faulty variant that keeps the descriptor a name already has.
register_keeps_first(reg, name, d) ==
    [n \in DOMAIN reg \cup {name} |-> IF n \in DOMAIN reg THEN reg[n] ELSE d]

\* tests:63-70  self.commands[name] = handler: the entry of the name is
\* set, whatever it was (last registration wins).
register(reg, name, d) ==
    [n \in DOMAIN reg \cup {name} |-> IF n = name THEN d ELSE reg[n]]

\* Every descriptor registered by the owner is removed.
unregisterAll(reg, owner) ==
    [n \in {m \in DOMAIN reg : reg[m].owner # owner} |-> reg[n]]

\* "room create" names the command room_create.
Compound(first, second) == first \o "_" \o second

Found(reg, name, rest) ==
    [found |-> TRUE, name |-> name, descriptor |-> reg[name], args |-> rest]

\* A faulty variant without the two-token match.
resolve_exact_only(reg, tokens) ==
    IF tokens # <<>> /\ tokens[1] \in DOMAIN reg
    THEN Found(reg, tokens[1], Tail(tokens))
    ELSE NotFound

\* A faulty variant that tries the two-token match first.
resolve_compound_first(reg, tokens) ==
    IF Len(tokens) >= 2 /\ Compound(tokens[1], tokens[2]) \in DOMAIN reg
    THEN Found(reg, Compound(tokens[1], tokens[2]), Tail(Tail(tokens)))
    ELSE IF tokens # <<>> /\ tokens[1] \in DOMAIN reg
    THEN Found(reg, tokens[1], Tail(tokens))
    ELSE NotFound

\* Step 1 of the pipeline: the first token is tried as the exact name of a
\* command, the rest being its argument text; then the first two tokens as
\* the name of a grouped command, the rest after them being its argument
\* text; else no command is found.
resolve(reg, tokens) ==
    IF tokens # <<>> /\ tokens[1] \in DOMAIN reg
    THEN Found(reg, tokens[1], Tail(tokens))
    ELSE IF Len(tokens) >= 2 /\ Compound(tokens[1], tokens[2]) \in DOMAIN reg
    THEN Found(reg, Compound(tokens[1], tokens[2]), Tail(Tail(tokens)))
    ELSE NotFound

\* A plugin registers a command.
register_call ==
    /\ Len(reg_log) < MaxOps
    /\ \E name \in Names, d \in Descriptors :
         /\ registry' = register(registry, name, d)
         /\ reg_log' = Append(reg_log, [op |-> "register", name |-> name, d |-> d])
    /\ UNCHANGED <<resolve_in, resolve_out, dvars, qvars, rvars, cvars, jvars, xvars>>

\* A plugin is deactivated.
unregister_call ==
    /\ Len(reg_log) < MaxOps
    /\ \E owner \in Owners :
         /\ registry' = unregisterAll(registry, owner)
         /\ reg_log' = Append(reg_log, [op |-> "unregisterAll", owner |-> owner])
    /\ UNCHANGED <<resolve_in, resolve_out, dvars, qvars, rvars, cvars, jvars, xvars>>

\* A command text is resolved.
resolve_call ==
    /\ \E tokens \in ResolveInputs :
         /\ resolve_in' = tokens
         /\ resolve_out' = [called |-> TRUE, at |-> Len(reg_log),
                            result |-> resolve(registry, tokens)]
    /\ UNCHANGED <<registry, reg_log, dvars, qvars, rvars, cvars, jvars, xvars>>

RegistryNext ==
    \/ register_call
    \/ unregister_call
    \/ resolve_call

RegistrySpec == Init /\ [][RegistryNext]_vars


----------------------------------------------------------------------------
(* Properties of the registry *)

\* The last call of resolve was made on the registry as it is now.
Resolved == resolve_out.called /\ resolve_out.at = Len(reg_log)

\* C17: when room_create is registered and the first token room names no
\* command itself, the text room_create and the two-token text room create,
\* each followed by the same remaining text, resolve to the same
\* descriptor, that of room_create, with the remaining text as the
\* arguments.
C17_CompoundSameAsUnderscore ==
    ("room_create" \in DOMAIN registry /\ "room" \notin DOMAIN registry) =>
        /\ \A rest \in {<<>>, <<"x">>} :
              /\ resolve(registry, <<"room", "create">> \o rest)
                     = resolve(registry, <<"room_create">> \o rest)
              /\ resolve(registry, <<"room", "create">> \o rest)
                     = [found |-> TRUE, name |-> "room_create",
                        descriptor |-> registry["room_create"], args |-> rest]
        /\ (Resolved /\ resolve_in \in {<<"room", "create">>, <<"room_create">>,
                                         <<"room", "create", "x">>, <<"room_create", "x">>})
              => /\ resolve_out.result.found
                 /\ resolve_out.result.descriptor = registry["room_create"]
                 /\ resolve_out.result.args = IF resolve_in[Len(resolve_in)] = "x"
                                              THEN <<"x">> ELSE <<>>

\* Only room_create is registered, and room create x was resolved to it
\* with the argument x.
C17_Witness ==
    /\ DOMAIN registry = {"room_create"}
    /\ Resolved
    /\ resolve_in = <<"room", "create", "x">>
    /\ resolve_out.result = [found |-> TRUE, name |-> "room_create",
                             descriptor |-> registry["room_create"], args |-> <<"x">>]

\* C18: the exact single-token match is tried first: when the first token
\* alone names a registered command and the first two tokens name a
\* registered grouped command, the single-token command is resolved and the
\* second token is part of its arguments.
C18_ExactMatchFirst ==
    (Resolved /\ Len(resolve_in) >= 2
        /\ resolve_in[1] \in DOMAIN registry
        /\ Compound(resolve_in[1], resolve_in[2]) \in DOMAIN registry) =>
        resolve_out.result = [found |-> TRUE, name |-> resolve_in[1],
                              descriptor |-> registry[resolve_in[1]],
                              args |-> Tail(resolve_in)]

\* room and room_create are both registered with different descriptors, and
\* room create x was resolved to room with the arguments create x.
C18_Witness ==
    /\ Resolved
    /\ DOMAIN registry = {"room", "room_create"}
    /\ registry["room"] # registry["room_create"]
    /\ resolve_in = <<"room", "create", "x">>
    /\ resolve_out.result.name = "room"
    /\ resolve_out.result.args = <<"create", "x">>

\* The descriptor of the most recent register call for the name in the log,
\* unless the plugin that made it was unregistered since.
LastRegistered(log, name) ==
    LET regs == {i \in 1..Len(log) : log[i].op = "register" /\ log[i].name = name} IN
    IF regs = {} THEN NotFound
    ELSE LET i == CHOOSE k \in regs : \A j \in regs : j <= k IN
         IF \E j \in (i + 1)..Len(log) :
               log[j].op = "unregisterAll" /\ log[j].owner = log[i].d.owner
         THEN NotFound
         ELSE [found |-> TRUE, name |-> name, descriptor |-> log[i].d, args |-> <<>>]

----------------------------------------------------------------------------
(* Failures of resolution and of argument parsing *)

ReplyFailures == {"CommandNotFound", "ArgumentSyntaxError"}

\* C20: when command resolution fails (CommandNotFound) or argument parsing
\* fails (ArgumentSyntaxError), the dispatch cycle sends exactly one
\* user-visible reply, never executes a handler, and ends cleanly: an
\* unknown command and an argument text that does not parse go from
\* Resolving and Parsing straight to the reply, with nothing sent before
\* and no handler started; a handler is started only from Parsing, for a
\* registered command whose arguments parsed; the reply is the one message
\* of the dispatch, which then is back in Idle.
C20_OneReplyNoHandler ==
    /\ [][(pc = "Resolving" /\ pc' # pc /\ mess.line.name \notin DOMAIN commands)
             => (pc' = "ErrorEmitting" /\ err' = "CommandNotFound")]_vars
    /\ [][(pc = "Parsing" /\ pc' # pc /\ ~ParseArgs(commands[cmd].arg_parser, args).ok)
             => (pc' = "ErrorEmitting" /\ err' = "ArgumentSyntaxError")]_vars
    /\ [][(pc' = "ErrorEmitting" /\ pc # pc' /\ err' \in ReplyFailures)
             => /\ pc \in {"Resolving", "Parsing"}
                /\ sent' = <<>>
                /\ UNCHANGED <<replies, script, outgoing_message_queue>>]_vars
    /\ [][(pc' = "Executing" /\ pc \notin {"Executing", "Emitting"})
             => /\ pc = "Parsing"
                /\ cmd \in DOMAIN commands
                /\ ParseArgs(commands[cmd].arg_parser, args).ok]_vars
    /\ [](pc = "ErrorEmitting" /\ err \in ReplyFailures => sent = <<>>)
    /\ [][(pc = "ErrorEmitting" /\ pc' # pc /\ err \in ReplyFailures)
             => /\ pc' = "Idle"
                /\ done' = done + 1
                /\ sent' = <<build_reply(mess, <<MSG_ERROR_OCCURRED, err>>)>>
                /\ outgoing_message_queue' =
                       Append(outgoing_message_queue,
                              build_reply(mess, <<MSG_ERROR_OCCURRED, err>>))]_vars

\* The dispatch of plugin_cmd with an unbalanced quote has ended with the
\* one reply that tells the syntax error.
C20_Witness ==
    /\ Finished
    /\ mess.line.name = "plugin_cmd"
    /\ err = "ArgumentSyntaxError"
    /\ BodiesOf(sent) = <<<<MSG_ERROR_OCCURRED, "ArgumentSyntaxError">>>>


----------------------------------------------------------------------------
(* The room commands of the chat-room plugin *)

RoomCommands == {"room_create", "room_join", "room_leave", "room_destroy", "room_invite"}

\* The argument lists a room command is called with: none, a room, a room
\* and one more word.
RoomArgLists == {<<>>, <<"r">>, <<"r", "b">>}

\* How the call on the backend's room may go: it returns, or it raises
\* SlackAPIResponseError with the error "user_is_bot" or with another
\* error, RoomJoinError or DeliveryError.
BackendOutcomes ==
    {"ok", "user_is_bot", "SlackAPIResponseError", "RoomJoinError", "DeliveryError"}

SLACK_USER_IS_BOT_HELPTEXT == "SLACK_USER_IS_BOT_HELPTEXT"

\* The handler returns the text / raises.
Returns(text) == Behaviour(FALSE, <<text>>, FALSE)
Reraises == Behaviour(FALSE, <<>>, TRUE)

\* core_plugins/chatRoom.py:93-100, 126-132, 150-156, 174-180, 198-204: the
\* try statement of a room command.  Only SlackAPIResponseError is caught,
\* and re-raised unless its error is "user_is_bot"; every other exception
\* leaves the handler.
room_try(outcome, unable, success) ==
    IF outcome = "ok" THEN Returns(success)
    ELSE IF outcome = "user_is_bot" THEN Returns(<<unable, SLACK_USER_IS_BOT_HELPTEXT>>)
    ELSE Reraises

\* core_plugins/chatRoom.py:84-100
room_create(mode, a, outcome) ==
    IF mode = "tox" /\ Len(a) # 0
    THEN [called |-> FALSE, b |-> Returns(<<"You cannot specify a chatgroup name on TOX.">>)]
    ELSE IF mode # "tox" /\ Len(a) < 1
    THEN [called |-> FALSE, b |-> Returns(<<"Please tell me which chatroom to create.">>)]
    ELSE [called |-> TRUE,
          b |-> room_try(outcome, "Unable to create rooms. ",
                         <<"Created the room ", IF mode = "tox" THEN "None" ELSE a[1]>>)]

\* core_plugins/chatRoom.py:119-132.  args.split(' ', 1) has at least one
\* element, so the test of line 121 is never true; with no argument the
\* room is the empty string.
room_join(a, outcome) ==
    [called |-> TRUE,
     b |-> room_try(outcome, "Unable to join rooms. ",
                    <<"Joined the room ", IF a = <<>> THEN "" ELSE a[1]>>)]

\* core_plugins/chatRoom.py:148-156
room_leave(a, outcome) ==
    IF Len(a) < 1
    THEN [called |-> FALSE, b |-> Returns(<<"Please tell me which chatroom to leave.">>)]
    ELSE [called |-> TRUE,
          b |-> room_try(outcome, "Unable to leave rooms. ", <<"Left the room ", a[1]>>)]

\* core_plugins/chatRoom.py:172-180
room_destroy(a, outcome) ==
    IF Len(a) < 1
    THEN [called |-> FALSE, b |-> Returns(<<"Please tell me which chatroom to destroy.">>)]
    ELSE [called |-> TRUE,
          b |-> room_try(outcome, "Unable to destroy rooms. ", <<"Destroyed the room ", a[1]>>)]

\* core_plugins/chatRoom.py:196-204
room_invite(a, outcome) ==
    IF Len(a) < 2
    THEN [called |-> FALSE,
          b |-> Returns(<<"Please tell me which person(s) to invite into which room.">>)]
    ELSE [called |-> TRUE,
          b |-> room_try(outcome, "Unable to invite people into rooms. ",
                         <<"Invited ", a[2], a[1]>>)]

RoomHandler(c, mode, a, outcome) ==
    CASE c = "room_create" -> room_create(mode, a, outcome)
      [] c = "room_join" -> room_join(a, outcome)
      [] c = "room_leave" -> room_leave(a, outcome)
      [] c = "room_destroy" -> room_destroy(a, outcome)
      [] c = "room_invite" -> room_invite(a, outcome)

\* A user issues a room command: the dispatcher calls the handler with the
\* parsed arguments, and the handler's call on the backend goes as outcome
\* says.  backend_out is "" when the handler returned before that call.
room_command_call ==
    /\ pc = "Idle"
    /\ cur < MaxInbound
    /\ outgoing_message_queue = <<>>
    /\ \E c \in RoomCommands, mode \in {"text", "tox"}, a \in RoomArgLists,
          outcome \in BackendOutcomes :
         LET h == RoomHandler(c, mode, a, outcome) IN
            /\ mess' = example_message([name |-> c, rest |-> a], cur + 1)
            /\ cmd' = c
            /\ args' = a
            /\ replies' = h.b
            /\ script' = h.b
            /\ backend_out' = IF h.called THEN outcome ELSE ""
    /\ cur' = cur + 1
    /\ sent' = <<>>
    /\ parts' = <<>>
    /\ err' = ""
    /\ pc' = "Executing"
    /\ UNCHANGED <<done, qvars, rvars, cvars, jvars, gvars, exit_log, exit_cause,
                   pending, zapped, ident, room_op>>

\* How the lookup of one room's occupants may go (line 242): it gives the
\* occupants, raises RoomNotJoinedError, or raises something else.
OccupantsOutcomes == {"ok", "RoomNotJoinedError", "raises"}

\* A faulty variant whose try statement catches nothing.
except_nothing(o) == FALSE

\* core_plugins/chatRoom.py:244   except RoomNotJoinedError as e
except_RoomNotJoinedError(o) == o = "RoomNotJoinedError"

\* core_plugins/chatRoom.py:243, 245: the text yielded for one room.
occupants_reply(room, o) ==
    IF o = "ok" THEN <<"Occupants in ", room, "occupants">>
    ELSE <<"Cannot list occupants in ", room, "e">>

\* core_plugins/chatRoom.py:237-245: a generator.  With no argument it
\* yields the prompt and returns; otherwise it goes through the rooms in
\* the order of the arguments and yields one text for each, until the
\* lookup of a room raises an exception the try statement does not catch.
room_occupants(a, outcomes) ==
    IF Len(a) < 1
    THEN Behaviour(TRUE, <<<<"Please supply a room to list the occupants of.">>>>, FALSE)
    ELSE LET ends == {i \in 1..Len(a) : /\ outcomes[i] # "ok"
                                        /\ ~except_RoomNotJoinedError(outcomes[i])}
             n == IF ends = {} THEN Len(a)
                  ELSE (CHOOSE i \in ends : \A j \in ends : i <= j) - 1
         IN Behaviour(TRUE, [i \in 1..n |-> occupants_reply(a[i], outcomes[i])],
                      ends # {})

\* A user issues the room occupants command for up to MaxYield rooms;
\* room_op keeps how the lookup of each room went.
room_occupants_call ==
    /\ pc = "Idle"
    /\ cur < MaxInbound
    /\ outgoing_message_queue = <<>>
    /\ \E a \in SeqsUpTo({"r", "s"}, MaxYield) :
         \E outcomes \in [1..Len(a) -> OccupantsOutcomes] :
            LET b == room_occupants(a, outcomes) IN
               /\ mess' = example_message([name |-> "room_occupants", rest |-> a], cur + 1)
               /\ cmd' = "room_occupants"
               /\ args' = a
               /\ replies' = b
               /\ script' = b
               /\ room_op' = [op |-> "room_occupants", outcomes |-> outcomes]
    /\ cur' = cur + 1
    /\ sent' = <<>>
    /\ parts' = <<>>
    /\ err' = ""
    /\ pc' = "Executing"
    /\ UNCHANGED <<done, qvars, rvars, cvars, jvars, gvars, backend_out, exit_log,
                   exit_cause, pending, zapped, ident>>

RoomNext ==
    \/ room_command_call
    \/ room_occupants_call
    \/ Execute
    \/ Emit
    \/ ErrorEmit
    \/ pop_message

RoomSpec == Init /\ [][RoomNext]_vars

RoomFaults == {"RoomJoinError", "DeliveryError"}

\* C21: when the backend call of a user-issued room command (create, join,
\* leave, destroy, invite) raises RoomJoinError or DeliveryError, the
\* handler turns it into a plain string: the user gets exactly one normal
\* text reply, and no synthetic error message.
C21_RoomErrorsBecomeTextReply ==
    (Finished /\ mess.line.name \in RoomCommands /\ backend_out \in RoomFaults) =>
        /\ Len(sent) = 1
        /\ ErrorsIn(sent) = {}

\* C21, what the code does: the handler turns only the "user_is_bot" error
\* of Slack into a text reply; RoomJoinError, DeliveryError and every other
\* exception of the backend call leave the handler, and the one message the
\* user gets is the synthetic error message.
C21_OnlyUserIsBotBecomesText ==
    (Finished /\ mess.line.name \in RoomCommands) =>
        /\ Len(sent) = 1
        /\ backend_out \in {"", "ok", "user_is_bot"} => ErrorsIn(sent) = {}
        /\ backend_out = "user_is_bot" => sent[1].body[2] = SLACK_USER_IS_BOT_HELPTEXT
        /\ backend_out \in RoomFaults \cup {"SlackAPIResponseError"}
              => (script.raises /\ ErrorsIn(sent) = {1})

\* C32: the room join command called with empty argument text replies
\* 'Please tell me which chatroom to join.' and joins no room: no join is
\* asked of the backend.
C32_EmptyJoinPrompts ==
    (Finished /\ mess.line.name = "room_join" /\ mess.line.rest = <<>>) =>
        /\ Len(sent) = 1
        /\ sent[1].body = <<"Please tell me which chatroom to join.">>
        /\ backend_out = ""

\* C32, what the code does: with empty argument text the join of the room
\* named by the empty string is asked of the backend, and the reply is
\* 'Joined the room ' when that join returns.
C32_EmptyJoinCallsBackend ==
    (Finished /\ mess.line.name = "room_join" /\ mess.line.rest = <<>>) =>
        /\ Len(sent) = 1
        /\ backend_out # ""
        /\ backend_out = "ok" => sent[1].body = <<"Joined the room ", "">>

\* C31: the room occupants command produces exactly one reply for each
\* room argument, in the order of the arguments; a RoomNotJoinedError for
\* one room gives a 'Cannot list occupants' reply for that room and does
\* not prevent the replies for the rooms after it; with no argument the
\* command produces exactly one reply, the prompt.  (The lookups are those
\* that return or raise RoomNotJoinedError.)
C31_OneReplyPerRoom ==
    (Finished /\ mess.line.name = "room_occupants") =>
        LET a == mess.line.rest
            o == room_op.outcomes
        IN /\ a = <<>> =>
                 /\ script.out = <<<<"Please supply a room to list the occupants of.">>>>
                 /\ BodiesOf(sent) = script.out
           /\ (a # <<>> /\ \A i \in 1..Len(a) : o[i] \in {"ok", "RoomNotJoinedError"}) =>
                 /\ ~script.raises
                 /\ Len(script.out) = Len(a)
                 /\ \A i \in 1..Len(a) :
                       /\ script.out[i][2] = a[i]
                       /\ script.out[i][1] =
                             IF o[i] = "ok" THEN "Occupants in "
                             ELSE "Cannot list occupants in "
                 /\ BodiesOf(sent) = script.out

\* Two rooms were asked for; the first one is not joined and the second
\* one is, and both replies were sent.
C31_Witness ==
    /\ Finished /\ mess.line.name = "room_occupants"
    /\ Len(mess.line.rest) = 2
    /\ room_op.outcomes = <<"RoomNotJoinedError", "ok">>
    /\ Len(sent) = 2
    /\ sent[2].body[1] = "Occupants in "


----------------------------------------------------------------------------
(* Replies *)

\* tests:123-124   m.setFrom("from@fromdomain.net/fromresource");
\*                 m.setTo("to@todomain.net/toresource")
\* and senders without a resource.
Senders ==
    {Identifier("from", "fromdomain.net", <<"fromresource">>),
     Identifier("from", "fromdomain.net", None),
     BOT_ADMIN}

\* tests:122-125: a message whose from and to are set, of either type, is
\* answered: its command (one that answers with a short text, with a long
\* text, or with a text followed by a failure) is executed and every text
\* of the answer goes through build_reply.
build_reply_call ==
    /\ pc = "Idle"
    /\ cur < MaxInbound
    /\ outgoing_message_queue = <<>>
    /\ \E frm \in Senders, type \in {"chat", "groupchat"}, a \in ArgLists,
          c \in {"return_args_as_str", "return_long_output",
                 "yields_str_then_raises_exception"} :
         \E b \in Behaviours(c, a) :
            /\ mess' = Inbound([name |-> c, rest |-> a], cur + 1, frm,
                               Identifier("to", "todomain.net", <<"toresource">>), type)
            /\ cmd' = c
            /\ args' = a
            /\ replies' = b
            /\ script' = b
    /\ cur' = cur + 1
    /\ sent' = <<>>
    /\ parts' = <<>>
    /\ err' = ""
    /\ pc' = "Executing"
    /\ UNCHANGED <<done, qvars, rvars, ovars>>

ReplyNext ==
    \/ build_reply_call
    \/ Execute
    \/ Emit
    \/ ErrorEmit
    \/ pop_message

ReplySpec == Init /\ [][ReplyNext]_vars

\* The messages of ms have the same to, from and type.
SameEnvelope(ms) ==
    \A i, j \in 1..Len(ms) :
        /\ ms[i].to = ms[j].to
        /\ ms[i].frm = ms[j].frm
        /\ ms[i].type = ms[j].type

\* The one text of the answer, when it needs no splitting, is the body.
GivenTextIsBody ==
    (Finished /\ ~script.raises /\ Len(script.out) = 1 /\ FitsLimit(script.out))
        => BodiesOf(sent) = script.out

\* C22 as stated: a reply built for an inbound message has the from of that
\* message as its to and the bot's own identity as its from, with the given
\* text as body; all chunks of one reply have the same to, from and kind.
C22_AsStated ==
    /\ \A i \in 1..Len(sent) :
          /\ sent[i].to = mess.frm
          /\ sent[i].frm = self_jid
    /\ GivenTextIsBody
    /\ SameEnvelope(sent)

\* C22 amended: the to of the reply is the sender of the inbound message
\* without the resource (person@host), whether or not the sender's address
\* had one; its from is the bot's own identity, its body the given text;
\* all chunks of one reply, and the error message that may follow them,
\* have the same to, from and kind.
C22_ReplyToBareSender ==
    /\ \A i \in 1..Len(sent) :
          /\ sent[i].to = Identifier(mess.frm.node, mess.frm.domain, None)
          /\ sent[i].frm = self_jid
          /\ sent[i].type = mess.type
    /\ GivenTextIsBody
    /\ SameEnvelope(sent)

\* A sender with a resource got a long answer in several chunks.
C22_Witness ==
    /\ Finished
    /\ mess.frm = Identifier("from", "fromdomain.net", <<"fromresource">>)
    /\ mess.line.name = "return_long_output"
    /\ Len(sent) = 3
    /\ sent[1].to = Identifier("from", "fromdomain.net", None)


----------------------------------------------------------------------------
(* Identifiers *)

\* Address strings are sequences of characters: a letter and the two
\* separators.
Addresses == SeqsUpTo({"g", "@", "/"}, MaxAddr)

Positions(str, ch) == {i \in 1..Len(str) : str[i] = ch}
Min(S) == CHOOSE i \in S : \A j \in S : i <= j
Max(S) == CHOOSE i \in S : \A j \in S : j <= i

MalformedAddress == [malformed |-> TRUE]

\* parse(raw): what follows the first "/" is the resource; before it, the
\* last "@" separates the node from the domain (tests:77-86, 113-117).
\* Without an "@" the address is malformed.
parse(raw) ==
    LET slashes == Positions(raw, "/")
        cut == IF slashes = {} THEN Len(raw) + 1 ELSE Min(slashes)
        bare == SubSeq(raw, 1, cut - 1)
        ats == Positions(bare, "@")
    IN IF ats = {} THEN MalformedAddress
       ELSE Identifier(SubSeq(bare, 1, Max(ats) - 1),
                       SubSeq(bare, Max(ats) + 1, Len(bare)),
                       IF cut > Len(raw) THEN None ELSE SubSeq(raw, cut + 1, Len(raw)))

\* A faulty variant that leaves the resource out.
toString_bare(id) == id.node \o <<"@">> \o id.domain

\* toString(): person@host, or person@host/resource (tests:99-104).
toString(id) ==
    id.node \o <<"@">> \o id.domain
        \o (IF id.resource = None THEN <<>> ELSE <<"/">> \o id.resource)

\* A faulty variant that compares the resources too.
bareMatch_full(a, b) == a = b

\* bareMatch(other): person and host are compared, the resource is not
\* (tests:88-93).
bareMatch(a, b) == a.node = b.node /\ a.domain = b.domain

\* tests:89-91: the identifiers of the matching test, and the same without
\* a resource.
MatchIdentifiers ==
    {Identifier(n, d, r) : n \in {"gbin", "bob"}, d \in {"gootz.net", "giitz.net"},
                           r \in {None, <<"toto">>, <<"titi">>}}

\* The first call on identifiers of a run: an address string is parsed, the identifier is written back as a string
\* and that string is parsed again.
parse_call ==
    /\ ident.op = ""
    /\ \E raw \in Addresses :
         LET id == parse(raw) IN
           ident' = IF id = MalformedAddress
                    THEN [op |-> "parse", raw |-> raw, id |-> id]
                    ELSE [op |-> "parse", raw |-> raw, id |-> id,
                          str |-> toString(id), again |-> parse(toString(id))]
    /\ UNCHANGED <<dvars, qvars, rvars, cvars, jvars, gvars, backend_out, exit_log,
                   exit_cause, pending, zapped, room_op>>

\* Two identifiers are compared.
bareMatch_call ==
    /\ ident.op = ""
    /\ \E a \in MatchIdentifiers, b \in MatchIdentifiers :
         ident' = [op |-> "bareMatch", a |-> a, b |-> b, result |-> bareMatch(a, b)]
    /\ UNCHANGED <<dvars, qvars, rvars, cvars, jvars, gvars, backend_out, exit_log,
                   exit_cause, pending, zapped, room_op>>

IdentifierNext ==
    \/ parse_call
    \/ bareMatch_call

IdentifierSpec == Init /\ [][IdentifierNext]_vars

\* The strings of the form person@host or person@host/resource: person,
\* host and resource are not empty, "/" ends the host and is neither in the
\* person nor in the host, and "@" is not in the host.
NonEmptySplits(str) ==
    {<<i, j>> \in (1..Len(str)) \X (1..(Len(str) + 1)) :
        /\ str[i] = "@" /\ 1 < i /\ i + 1 < j
        /\ (j <= Len(str) => (str[j] = "/" /\ j < Len(str)))
        /\ \A k \in 1..(j - 1) : str[k] = "/" => FALSE
        /\ \A k \in (i + 1)..(j - 1) : str[k] # "@"}
WellFormed(str) == NonEmptySplits(str) # {}

\* C24: for every well-formed address string s of the form person@host or
\* person@host/resource, parse(toString(parse(s))) = parse(s) and
\* toString(parse(s)) = s.
C24_IdentifierRoundTrip ==
    (ident.op = "parse" /\ WellFormed(ident.raw)) =>
        /\ ident.id # MalformedAddress
        /\ ident.again = ident.id
        /\ ident.str = ident.raw

\* An address with an "@" in its person and with a resource went round.
C24_Witness ==
    /\ ident.op = "parse"
    /\ ident.raw = <<"g", "@", "g", "@", "g", "/", "g">>
    /\ ident.id = Identifier(<<"g", "@", "g">>, <<"g">>, <<"g">>)
    /\ ident.str = ident.raw

\* C25: bareMatch compares person and host only: it is reflexive, two
\* identifiers that differ only in resource match, and two identifiers that
\* differ in person or host do not match.
C25_BareMatch ==
    ident.op = "bareMatch" =>
        /\ ident.a = ident.b => ident.result
        /\ (ident.a.node = ident.b.node /\ ident.a.domain = ident.b.domain) => ident.result
        /\ (ident.a.node # ident.b.node \/ ident.a.domain # ident.b.domain) => ~ident.result

\* tests:89-92: gbin@gootz.net/toto matches gbin@gootz.net/titi.
C25_Witness ==
    /\ ident.op = "bareMatch"
    /\ ident.a = Identifier("gbin", "gootz.net", <<"toto">>)
    /\ ident.b = Identifier("gbin", "gootz.net", <<"titi">>)
    /\ ident.result


----------------------------------------------------------------------------
(* The ways out of the serve loop *)

\* C26: once the quit message is dequeued no further stanza is dispatched,
\* and on every way out of the loop (quit message, EOF, keyboard interrupt
\* or an exception from a callback) disconnect_callback is invoked exactly
\* once and then shutdown exactly once, in that order: the dequeued quit
\* message ends the loop; after the end no stanza is taken and no dispatch
\* step is made; and the calls made on the way out are exactly
\* disconnect_callback, shutdown, whatever ended the loop.
C26_LoopExit ==
    /\ [][(incoming_stanza_queue # <<>> /\ Head(incoming_stanza_queue).entry = QUIT_MESSAGE
              /\ Len(incoming_stanza_queue') < Len(incoming_stanza_queue))
             => (pc' = "Stopped" /\ exit_cause' = "quit" /\ cur' = cur)]_vars
    /\ [][pc = "Stopped"
             => /\ UNCHANGED <<dvars, exit_log, exit_cause>>
                /\ IsPrefix(incoming_stanza_queue, incoming_stanza_queue')]_vars
    /\ [](pc = "Stopped" => /\ exit_log = <<"disconnect_callback", "shutdown">>
                            /\ exit_cause \in {"quit", "EOFError", "KeyboardInterrupt",
                                               "Exception"})
    /\ [](pc # "Stopped" => (exit_log = <<>> /\ exit_cause = ""))

\* An exception of a callback ended the loop in the middle of a dispatch,
\* with a stanza still queued.
C26_Witness ==
    /\ pc = "Stopped"
    /\ exit_cause = "Exception"
    /\ incoming_stanza_queue # <<>>
    /\ cur = 1 /\ done = 0
    /\ exit_log = <<"disconnect_callback", "shutdown">>

====
